---- MODULE Spec2Model ----
(***************************************************************************)
(* Remote data-retrieval core of climate_experiment:                       *)
(*   - paginated ESGF catalog search      (data_access/esgf_search.py)     *)
(*   - resumable file transfer            (data_access/esgf_opendap.py,    *)
(*                                         scripts/download_cmip6_bulk.py) *)
(*   - member selection and assembly      (data_access/cmip6.py)           *)
(*   - composite historical+scenario      (data_access/cmip6.py)           *)
(*   - authenticated session, token file  (data_access/esgf_auth.py)       *)
(*   - bulk retrieval planning and pool   (scripts/download_cmip6_bulk.py) *)
(*   - point extraction                   (data_access/esgf_opendap.py)    *)
(*   - catalog query parameters           (data_access/esgf_search.py)     *)
(* Each subsystem has its own specification over the shared variables.     *)
(***************************************************************************)
EXTENDS Integers, Sequences, FiniteSets, TLC

VARIABLES
    \* ---- catalog search (search_files) ----
    cfg,          \* ESGFSearchConfig fields read by the search: limit, max_pages, preferred_grid_labels
    catalog,      \* the server's matching entries, in catalog order
    honest,       \* TRUE: the server pages the catalog as asked; FALSE: it answers anything
    s_pc,         \* "idle" | "paging" | "done" | "error" ("off" outside SpecSearch)
    offset,       \* local offset of search_files
    page,         \* loop iterations of `for _ in range(cfg.max_pages)` begun so far
    records,      \* local records of search_files
    requests,     \* offsets of the catalog requests issued so far (history)
    sizes,        \* per request: len(docs) of its response, None when it raised (history)
    \* ---- resumable transfer (_download_with_resume / download_one) ----
    T,            \* size of every remote source
    src,          \* the URL being fetched (index into FetchUrlPool)
    cached_for,   \* the URL whose fetch created or last emptied dest (0: no file yet; history)
    exists,       \* dest.exists()
    file,         \* content of dest
    f_pc,         \* "idle" | "get" | "stream" | "done" ("off" outside SpecFetch)
    expected,     \* expected_size; NoneInt when the probe failed
    resume_at,    \* resume_at of the running fetch
    status,       \* status code of the content response (0: none yet)
    bodyLeft,     \* response bytes not yet delivered by iter_content
    result,       \* outcome of the last fetch
    startFile,    \* content of dest when the running fetch began (history)
    startExists,  \* dest.exists() when the running fetch began (history)
    gets,         \* content GETs issued by the running fetch (history)
    written,      \* response bytes written to dest by the running fetch (history)
    delivered,    \* TRUE when iter_content delivered the whole response body (history)
    \* ---- assembly (CMIP6Client._open_member_timeseries) ----
    a_records,    \* search result handed to the assembly
    pinned,       \* the member argument (None when not pinned)
    window,       \* << start_year, end_year >>
    a_pc,         \* "idle" | "transfer" | "done" | "error" ("off" outside SpecAssemble)
    member,       \* the chosen member
    member_records, \* the chosen member's records, sorted
    slices,       \* per-file point slices opened so far
    combined,     \* the returned series
    a_error,      \* error raised by the assembly ("" when none)
    a_cache,      \* per cache path: "absent" | "partial" | "complete"
    completed,    \* cache paths of the files this assembly has opened so far (history)
    \* ---- composite series (CMIP6Client.open_all_timeseries) ----
    hist_records, \* search result for the historical experiment
    ssp_records,  \* search result for the scenario experiment
    c_member,     \* the member argument (None when not pinned)
    years,        \* [hist_start_year, hist_end_year, ssp_end_year]
    c_pc,         \* "idle" | "hist_done" | "done" | "error" ("off" outside SpecComposite)
    hist,         \* the historical segment
    ssp,          \* the scenario segment
    all_combined, \* the returned composite series
    \* ---- authenticated session (esgf_auth.py and its callers) ----
    client_id,    \* _get_client_id(): NoneStr, "" or a client id
    token_file,   \* the token file on disk: [state, access_token, refresh_token]
    issued,       \* access tokens issued by the authorization server so far
    b_pc,         \* build_authenticated_session: "start" | "device_flow" | "device_save" |
                  \* "device_dump" | "ready" | "disabled" | "build_error" | "crashed" ("off" outside SpecAuth)
    loaded,       \* what _load_tokens found when the session was built (history)
    interactive,  \* TRUE when this build ran the interactive exchange (history)
    authorizer,   \* the RefreshTokenAuthorizer shared by all requests: [access_token, expired]
    w_pc,         \* per worker: "idle" | "ensure" | "refreshing" | "save" | "dump" | "attach" | "done"
    w_op,         \* per worker: "none" | "search" | "fetch"
    w_phase,      \* per worker: "headers" | "head" | "get"
    w_new,        \* per worker: the access token its running ensure_valid_token obtained (0: none)
    w_saved,      \* per worker: its on_refresh handler finished writing w_new
    w_failed,     \* per worker: a refresh failed during its operation (history)
    w_outcome,    \* per worker: "none" | "ok" | "error"
    sent,         \* requests sent to the server through the session (history)
    \* ---- bulk retrieval (scripts/download_cmip6_bulk.py main) ----
    found,        \* the search results of all (model, experiment) pairs, in loop order
    max_workers,  \* --max-workers
    bulk_pc,      \* "start" | "pool" | "done" ("off" outside SpecBulk)
    tasks,        \* the planned (url, dest) records handed to the pool
    started,      \* number of tasks the pool has handed to a worker thread
    running,      \* indices of the tasks running in worker threads
    \* ---- point extraction (open_point_timeseries after the transfer) ----
    x_coords,     \* names of the coordinates of the opened dataset
    x_pc,         \* "opened" | "guessed" | "done" | "error" ("off" outside SpecExtract)
    lat_name,     \* _guess_coords: the latitude name found (None before)
    lon_name,     \* _guess_coords: the longitude name found (None before)
    x_used,       \* the names the nearest-point lookup was called with (history)
    x_error,      \* error raised by the extraction ("" when none)
    \* ---- catalog query parameters (_build_params and the page requests) ----
    q_activity,   \* cfg.activity_id
    q_experiment, \* the experiment argument, a sequence of tokens
    q_shards,     \* cfg.shards
    q_pc,         \* "idle" | "paging" | "done" ("off" outside SpecParams)
    q_params,     \* params: the set of keys and the activity_id value
    q_sent        \* the parameters of the page requests sent so far (history)

vars == << cfg, catalog, honest, s_pc, offset, page, records, requests, sizes,
           T, exists, file, f_pc, expected, resume_at, status, bodyLeft, result,
           startFile, startExists, gets, written, delivered, src, cached_for,
           a_records, pinned, window, a_pc, member, member_records, slices, combined, a_error,
           a_cache, completed,
           hist_records, ssp_records, c_member, years, c_pc, hist, ssp, all_combined,
           client_id, token_file, issued, b_pc, loaded, interactive, authorizer,
           w_pc, w_op, w_phase, w_new, w_saved, w_failed, w_outcome, sent,
           found, max_workers, bulk_pc, tasks, started, running,
           x_coords, x_pc, lat_name, lon_name, x_used, x_error,
           q_activity, q_experiment, q_shards, q_pc, q_params, q_sent >>

searchVars == << cfg, catalog, honest, s_pc, offset, page, records, requests, sizes >>
fetchVars == << T, exists, file, f_pc, expected, resume_at, status, bodyLeft, result,
                startFile, startExists, gets, written, delivered, src, cached_for >>
assembleVars == << a_records, pinned, window, a_pc, member, member_records, slices, combined, a_error,
                   a_cache, completed >>
compositeVars == << hist_records, ssp_records, c_member, years, c_pc, hist, ssp, all_combined >>
authVars == << client_id, token_file, issued, b_pc, loaded, interactive, authorizer,
               w_pc, w_op, w_phase, w_new, w_saved, w_failed, w_outcome, sent >>
bulkVars == << found, max_workers, bulk_pc, tasks, started, running >>
extractVars == << x_coords, x_pc, lat_name, lon_name, x_used, x_error >>
paramVars == << q_activity, q_experiment, q_shards, q_pc, q_params, q_sent >>

\* ---------------------------------------------------------------- bounds
MaxTotal == 3
MaxLimit == 2
MaxPages == 3
MaxT == 3
MaxJunk == 2
MaxRecs == 3
MaxSegRecs == 2
MaxWorkers == 2
MaxTokens == 2
MaxFound == 3

\* Python None, for string-valued and integer-valued fields
NoneStr == "None"
NoneInt == -1

Min(a, b) == IF a < b THEN a ELSE b

\* ================================================================ strings
\* A string is a sequence of tokens; "|" is the delimiter token.
\* str.split("|"): the maximal runs between delimiters, empty runs included.
RECURSIVE Split(_, _)
Split(s, cur) ==
    IF s = << >> THEN << cur >>
    ELSE IF Head(s) = "|" THEN << cur >> \o Split(Tail(s), << >>)
    ELSE Split(Tail(s), Append(cur, Head(s)))

\* "|".join(list)
RECURSIVE Join(_)
Join(l) ==
    IF l = << >> THEN << >>
    ELSE IF Len(l) = 1 THEN l[1]
    ELSE l[1] \o << "|" >> \o Join(Tail(l))

\* ================================================================ esgf_search.py
_normalize(url) ==
    IF url # << >> /\ Head(url) = "http://" THEN << "https://" >> \o Tail(url) ELSE url

FileAccess(url, svc, mime) == [url |-> _normalize(url), service |-> svc, mime |-> mime]

\* entries[i : i + 3] for i in range(0, len(entries), 3) if the slice has 3 items
Triples(entries) ==
    [k \in 1..(Len(entries) \div 3) |-> SubSeq(entries, 3 * k - 2, 3 * k)]

FirstHTTPServerBug(triples) ==
    IF triples # << >> /\ triples[1][3] = << "HTTPServer" >> THEN 1 ELSE 0

\* `for url, mime, svc in triples: if svc == "HTTPServer": return`
RECURSIVE FirstHTTPServer(_)
FirstHTTPServer(triples) ==
    IF triples = << >> THEN 0
    ELSE IF triples[1][3] = << "HTTPServer" >> THEN 1
    ELSE LET r == FirstHTTPServer(Tail(triples)) IN IF r = 0 THEN 0 ELSE r + 1

ChooseAccessLenientBug(url_field) ==
    LET entries == IF url_field.list THEN Split(Join(url_field.items), << >>)
                   ELSE Split(url_field.s, << >>)
        triples == Triples(entries)
        h == FirstHTTPServer(triples)
    IN  IF h # 0
        THEN [ok |-> TRUE, access |-> FileAccess(triples[h][1], triples[h][3], triples[h][2])]
        ELSE IF triples # << >>
        THEN [ok |-> TRUE, access |-> FileAccess(triples[1][1], triples[1][3], triples[1][2])]
        ELSE [ok |-> TRUE, access |-> FileAccess(entries[1], << >>, << >>)]

\* A raw JSON field is [none, list, s, items]: missing (None), a scalar string s,
\* or a list `items` of strings.
\* _choose_access; the result is [ok |-> FALSE] for None
_choose_access(url_field) ==
    LET entries == IF url_field.list THEN Split(Join(url_field.items), << >>)
                   ELSE Split(url_field.s, << >>)
        triples == Triples(entries)
        h == FirstHTTPServer(triples)
    IN  IF h # 0
        THEN [ok |-> TRUE, access |-> FileAccess(triples[h][1], triples[h][3], triples[h][2])]
        ELSE IF triples # << >>
        THEN [ok |-> TRUE, access |-> FileAccess(triples[1][1], triples[1][3], triples[1][2])]
        ELSE [ok |-> FALSE]

ScalarBug(raw) == raw.s

\* x[0] if isinstance(x, list) else x
Scalar(raw) == IF raw.list THEN raw.items[1] ELSE raw.s

\* `if url_field`: neither None nor empty
Truthy(url_field) ==
    /\ ~url_field.none
    /\ IF url_field.list THEN url_field.items # << >> ELSE url_field.s # << >>

GridDroppedBug(preferred_grid_labels, grid_label) == FALSE
\* `if preferred_grid_labels and grid_label not in preferred_grid_labels: continue`
GridDropped(preferred_grid_labels, grid_label) ==
    /\ preferred_grid_labels # << >>
    /\ \A i \in 1..Len(preferred_grid_labels) : preferred_grid_labels[i] # grid_label

RECURSIVE _parse_docs(_, _)
_parse_docs(docs, preferred_grid_labels) ==
    IF docs = << >> THEN << >>
    ELSE
      LET doc == Head(docs)
          rest == _parse_docs(Tail(docs), preferred_grid_labels)
          chosen == IF Truthy(doc.url) THEN _choose_access(doc.url) ELSE [ok |-> FALSE]
          grid_label == Scalar(doc.grid_label)
      IN  IF ~chosen.ok THEN rest
          ELSE IF GridDropped(preferred_grid_labels, grid_label)
          THEN rest
          ELSE << [dataset_id |-> doc.dataset_id,
                   member_id |-> Scalar(doc.member_id),
                   grid_label |-> grid_label,
                   datetime_start |-> doc.datetime_start,
                   datetime_stop |-> doc.datetime_stop,
                   access |-> chosen.access] >> \o rest

\* ---- catalog entries the server can hold
UrlStr(v) == [none |-> FALSE, list |-> FALSE, s |-> v, items |-> << >>]
UrlLst(v) == [none |-> FALSE, list |-> TRUE, s |-> << >>, items |-> v]
UrlMissing == [none |-> TRUE, list |-> FALSE, s |-> << >>, items |-> << >>]
Str(v) == [none |-> FALSE, list |-> FALSE, s |-> v, items |-> << >>]
Lst(v) == [none |-> FALSE, list |-> TRUE, s |-> "", items |-> v]
\* doc.get(...) of a missing field is None
Missing == [none |-> TRUE, list |-> FALSE, s |-> NoneStr, items |-> << >>]

UrlKinds ==
    << UrlStr(<< "http://", "a.nc", "|", "application/netcdf", "|", "HTTPServer" >>),
       UrlStr(<< "https://", "a.dods", "|", "application/opendap", "|", "OPENDAP", "|",
                 "http://", "a.nc", "|", "application/netcdf", "|", "HTTPServer", "|",
                 "https://", "a2.nc", "|", "application/netcdf", "|", "HTTPServer", "|",
                 "https://", "a3.nc" >>),
       UrlLst(<< << "https://", "b.dods", "|", "application/opendap", "|", "OPENDAP" >> >>),
       UrlStr(<< "https://", "c.nc", "|", "application/netcdf" >>),
       UrlMissing >>

DocKinds ==
    << [url |-> UrlKinds[1], grid_label |-> Lst(<< "gn" >>), member_id |-> Lst(<< "r1" >>)],
       [url |-> UrlKinds[2], grid_label |-> Str("gn"), member_id |-> Str("r2")],
       [url |-> UrlKinds[3], grid_label |-> Str("gr"), member_id |-> Lst(<< "r1" >>)],
       [url |-> UrlKinds[4], grid_label |-> Str("gn"), member_id |-> Str("r1")],
       [url |-> UrlKinds[5], grid_label |-> Missing, member_id |-> Missing],
       [url |-> UrlKinds[1], grid_label |-> Lst(<< "gr" >>), member_id |-> Str("r2")],
       [url |-> UrlKinds[3], grid_label |-> Missing, member_id |-> Missing] >>

NumKinds == Len(DocKinds)

Doc(id, k) ==
    [url |-> DocKinds[k].url, grid_label |-> DocKinds[k].grid_label,
     member_id |-> DocKinds[k].member_id, dataset_id |-> id,
     datetime_start |-> NoneStr, datetime_stop |-> NoneStr]

Catalogs ==
    UNION { { [i \in 1..n |-> Doc(i, ks[i])] : ks \in [1..n -> 1..NumKinds] } : n \in 0..MaxTotal }

GridConfigs == { << >>, << "gn" >> }

\* ---- the catalog server
\* A server that pages as asked answers docs[offset : offset + limit].
HonestPage(off, lim) == SubSeq(catalog, off + 1, Min(off + lim, Len(catalog)))

\* Any other server answers n entries of its choice, n possibly above the limit.
ArbitraryPages(lim) == { [i \in 1..n |-> Doc(0, k)] : n \in 0..(lim + 1), k \in 1..NumKinds }

ServerPages(off, lim) == IF honest THEN { HonestPage(off, lim) } ELSE ArbitraryPages(lim)

\* ---- search_files
NextOffsetBug(off, lim) == off + lim + 1
\* offset += cfg.limit
NextOffset(off, lim) == off + lim

LoopGuardBug(p, max_pages) == p <= max_pages
\* for _ in range(cfg.max_pages): iteration p (from 0) runs
LoopGuard(p, max_pages) == p < max_pages

ShortPageBug(n, lim) == FALSE
\* `if len(docs) < cfg.limit: break`
ShortPage(n, lim) == n < lim

AfterRaiseBug == "paging"
\* no try/except around http.get and raise_for_status: the exception ends the call
AfterRaise == "error"

search_files_call ==
    /\ s_pc = "idle"
    /\ offset' = 0
    /\ page' = 0
    /\ records' = << >>
    /\ requests' = << >>
    /\ sizes' = << >>
    /\ s_pc' = IF LoopGuard(0, cfg.max_pages) THEN "paging" ELSE "done"
    /\ UNCHANGED << cfg, catalog, honest >>

\* One iteration of the loop, with the response docs.
search_files_page ==
    /\ s_pc = "paging"
    /\ \E docs \in ServerPages(offset, cfg.limit) :
         /\ requests' = Append(requests, offset)
         /\ sizes' = Append(sizes, Len(docs))
         /\ page' = page + 1
         /\ IF docs = << >>
            THEN /\ s_pc' = "done"
                 /\ UNCHANGED << records, offset >>
            ELSE /\ records' = records \o _parse_docs(docs, cfg.preferred_grid_labels)
                 /\ IF ShortPage(Len(docs), cfg.limit)
                    THEN /\ s_pc' = "done"
                         /\ UNCHANGED offset
                    ELSE /\ offset' = NextOffset(offset, cfg.limit)
                         /\ s_pc' = IF LoopGuard(page + 1, cfg.max_pages) THEN "paging" ELSE "done"
    /\ UNCHANGED << cfg, catalog, honest >>

\* http.get raises, or resp.raise_for_status() raises: the exception leaves search_files.
search_files_raise ==
    /\ s_pc = "paging"
    /\ requests' = Append(requests, offset)
    /\ sizes' = Append(sizes, NoneInt)
    /\ page' = page + 1
    /\ s_pc' = AfterRaise
    /\ UNCHANGED << cfg, catalog, honest, offset, records >>

SearchParked ==
    /\ cfg = [limit |-> 1, max_pages |-> 0, preferred_grid_labels |-> << >>]
    /\ catalog = << >>
    /\ honest = TRUE
    /\ s_pc = "off"
    /\ offset = 0
    /\ page = 0
    /\ records = << >>
    /\ requests = << >>
    /\ sizes = << >>

FetchParked ==
    /\ T = 0
    /\ src = 1
    /\ cached_for = 0
    /\ exists = FALSE
    /\ file = << >>
    /\ f_pc = "off"
    /\ expected = NoneInt
    /\ resume_at = 0
    /\ status = 0
    /\ bodyLeft = << >>
    /\ result = "none"
    /\ startFile = << >>
    /\ startExists = FALSE
    /\ gets = 0
    /\ written = << >>
    /\ delivered = FALSE

AssembleParked ==
    /\ a_records = << >>
    /\ pinned = [none |-> TRUE, s |-> << >>]
    /\ window = << 1, 1 >>
    /\ a_pc = "off"
    /\ member = [none |-> TRUE, s |-> << >>]
    /\ member_records = << >>
    /\ slices = << >>
    /\ combined = << >>
    /\ a_error = ""
    /\ a_cache = << >>
    /\ completed = { }

CompositeParked ==
    /\ hist_records = << >>
    /\ ssp_records = << >>
    /\ c_member = [none |-> TRUE, s |-> << >>]
    /\ years = [hist_start_year |-> 0, hist_end_year |-> 0, ssp_end_year |-> 0]
    /\ c_pc = "off"
    /\ hist = << >>
    /\ ssp = << >>
    /\ all_combined = << >>

\* no credential: the token file is absent, or no authorizer exists
NoCredential == [state |-> "absent", access_token |-> 0, refresh_token |-> FALSE]

BulkParked ==
    /\ found = << >>
    /\ max_workers = 1
    /\ bulk_pc = "off"
    /\ tasks = << >>
    /\ started = 0
    /\ running = { }

ExtractParked ==
    /\ x_coords = { }
    /\ x_pc = "off"
    /\ lat_name = NoneStr
    /\ lon_name = NoneStr
    /\ x_used = << >>
    /\ x_error = ""

ParamsParked ==
    /\ q_activity = ""
    /\ q_experiment = << >>
    /\ q_shards = NoneStr
    /\ q_pc = "off"
    /\ q_params = [keys |-> { }, activity_id |-> NoneStr]
    /\ q_sent = << >>

AuthParked ==
    /\ client_id = NoneStr
    /\ token_file = NoCredential
    /\ issued = 0
    /\ b_pc = "off"
    /\ loaded = NoCredential
    /\ interactive = FALSE
    /\ authorizer = [access_token |-> 0, expired |-> FALSE]
    /\ w_pc = << >>
    /\ w_op = << >>
    /\ w_phase = << >>
    /\ w_new = << >>
    /\ w_saved = << >>
    /\ w_failed = << >>
    /\ w_outcome = << >>
    /\ sent = { }

InitSearch ==
    /\ cfg \in [limit : 1..MaxLimit, max_pages : 1..MaxPages, preferred_grid_labels : GridConfigs]
    /\ catalog \in Catalogs
    /\ honest \in BOOLEAN
    /\ (honest \/ catalog = << >>)
    /\ s_pc = "idle"
    /\ offset = 0
    /\ page = 0
    /\ records = << >>
    /\ requests = << >>
    /\ sizes = << >>
    /\ FetchParked
    /\ AssembleParked
    /\ CompositeParked
    /\ AuthParked
    /\ BulkParked
    /\ ExtractParked
    /\ ParamsParked

NextSearch ==
    \/ search_files_call /\ UNCHANGED << fetchVars, assembleVars, compositeVars, authVars, bulkVars, extractVars, paramVars >>
    \/ search_files_page /\ UNCHANGED << fetchVars, assembleVars, compositeVars, authVars, bulkVars, extractVars, paramVars >>
    \/ search_files_raise /\ UNCHANGED << fetchVars, assembleVars, compositeVars, authVars, bulkVars, extractVars, paramVars >>

SpecSearch == InitSearch /\ [][NextSearch]_vars

\* ================================================================ esgf_opendap.py, download_cmip6_bulk.py
\* The remote source: T bytes, byte i has value i. A byte 0 is not a byte of the source.
\* ---- the cache path of open_point_timeseries
\* A URL is [host, dir, name, query]: name is the basename of its path, << >>
\* when the path ends in "/".
\* filename = os.path.basename(url.split("?")[0]) or "esgf.nc"
CachePath(u) == IF u.name # << >> THEN u.name ELSE << "esgf.nc" >>

FetchUrlPool ==
    << [host |-> "n1", dir |-> "x", name |-> << "f.nc" >>, query |-> ""],
       [host |-> "n2", dir |-> "y", name |-> << "f.nc" >>, query |-> ""],
       [host |-> "n1", dir |-> "x", name |-> << "g.nc" >>, query |-> ""] >>

\* dest of the modelled transfers, and the URLs whose fetches use it
LocalPath == << "f.nc" >>
SameFileUrls == { k \in 1..Len(FetchUrlPool) : CachePath(FetchUrlPool[k]) = LocalPath }

\* the bytes of the source behind `src`: different URLs, different bytes
Src == [i \in 1..T |-> (src - 1) * 10 + i]

IsPrefix(p, s) == Len(p) <= Len(s) /\ SubSeq(s, 1, Len(p)) = p

\* _get_remote_size / remote_size: Content-Length of the HEAD response, None on any failure
ProbeResults == { T, NoneInt }

ShortCircuitBug(exp, at) == FALSE
\* `if expected_size and resume_at >= expected_size: return dest`
ShortCircuit(exp, at) == exp # NoneInt /\ exp # 0 /\ at >= exp

\* requests.Response.raise_for_status raises for 4xx and 5xx only
RaisesForStatus(st) == 400 <= st /\ st < 600

\* `if resp.status_code not in (200, 206): resp.raise_for_status()`
StatusRaises(st) == st \notin {200, 206} /\ RaisesForStatus(st)

OpenModeBug(at, st) == "ab"
OpenModeResumeBug(at, st) == IF at # 0 THEN "ab" ELSE "wb"
\* mode = "ab" if resume_at and resp.status_code == 206 else "wb"
OpenMode(at, st) == IF at # 0 /\ st = 206 THEN "ab" ELSE "wb"

IncompleteBug(exp, final) == FALSE
IncompleteUnknownBug(exp, final) == exp = NoneInt \/ final < exp
\* `if expected_size and final_size < expected_size`
Incomplete(exp, final) == exp # NoneInt /\ exp # 0 /\ final < exp

RangeStartBug(at) == at + 1

\* headers["Range"] = f"bytes={resume_at}-" when resume_at > 0; 0 stands for no Range header
RangeStart(at) == at

\* What a server can answer to the content GET asking for bytes from `from` on:
\* the whole source (200), the asked range (206), an error status, or a
\* status that is neither accepted nor an error, with a body of its own.
Junk(n) == [i \in 1..n |-> 0]

Responses(from) ==
    { [status |-> 200, body |-> Src] }
    \cup (IF from > 0 /\ from < T
          THEN { [status |-> 206, body |-> SubSeq(Src, from + 1, T)] } ELSE { })
    \cup { [status |-> st, body |-> << >>] : st \in {404, 416} }
    \cup { [status |-> 204, body |-> << >>] }
    \cup { [status |-> 203, body |-> Junk(n)] : n \in 1..MaxJunk }

\* _download_with_resume up to the content request (download_one likewise)
fetch_call ==
    /\ f_pc \in {"idle", "done"}
    /\ \E probe \in ProbeResults :
         LET at == IF exists THEN Len(file) ELSE 0 IN
         /\ expected' = probe
         /\ resume_at' = at
         /\ IF ShortCircuit(probe, at)
            THEN f_pc' = "done" /\ result' = "skip"
            ELSE f_pc' = "get" /\ result' = "running"
    /\ src' \in SameFileUrls
    /\ startFile' = file
    /\ startExists' = exists
    /\ gets' = 0
    /\ written' = << >>
    /\ delivered' = FALSE
    /\ status' = 0
    /\ bodyLeft' = << >>
    /\ UNCHANGED << T, exists, file, cached_for >>

\* the response to http.get arrives; the status check, then open(dest, mode)
fetch_response ==
    /\ f_pc = "get"
    /\ \E resp \in Responses(RangeStart(resume_at)) :
         /\ gets' = gets + 1
         /\ status' = resp.status
         /\ IF StatusRaises(resp.status)
            THEN /\ f_pc' = "done"
                 /\ result' = "status_error"
                 /\ UNCHANGED << exists, file, bodyLeft, cached_for >>
            ELSE /\ f_pc' = "stream"
                 /\ exists' = TRUE
                 /\ file' = IF OpenMode(resume_at, resp.status) = "ab" THEN file ELSE << >>
                 /\ cached_for' = IF OpenMode(resume_at, resp.status) = "ab" THEN cached_for ELSE src
                 /\ bodyLeft' = resp.body
                 /\ UNCHANGED result
    /\ UNCHANGED << T, src, expected, resume_at, startFile, startExists, written, delivered >>

\* http.get itself raises (connection refused, timeout)
fetch_request_raises ==
    /\ f_pc = "get"
    /\ gets' = gets + 1
    /\ f_pc' = "done"
    /\ result' = "request_error"
    /\ UNCHANGED << T, src, cached_for, exists, file, expected, resume_at, status, bodyLeft,
                    startFile, startExists, written, delivered >>

\* out.write(chunk) for the next chunk of iter_content
fetch_chunk ==
    /\ f_pc = "stream"
    /\ bodyLeft # << >>
    /\ file' = Append(file, Head(bodyLeft))
    /\ written' = Append(written, Head(bodyLeft))
    /\ bodyLeft' = Tail(bodyLeft)
    /\ UNCHANGED << T, src, cached_for, exists, f_pc, expected, resume_at, status, result,
                    startFile, startExists, gets, delivered >>

\* iter_content ends, after the whole body or after a connection that closed
\* early without an error; then the final size check
fetch_stream_end ==
    /\ f_pc = "stream"
    /\ delivered' = (bodyLeft = << >>)
    /\ bodyLeft' = << >>
    /\ f_pc' = "done"
    /\ result' = IF Incomplete(expected, Len(file)) THEN "incomplete" ELSE "ok"
    /\ UNCHANGED << T, src, cached_for, exists, file, expected, resume_at, status,
                    startFile, startExists, gets, written >>

\* iter_content raises (connection broken mid-stream)
fetch_stream_raises ==
    /\ f_pc = "stream"
    /\ bodyLeft # << >>
    /\ bodyLeft' = << >>
    /\ f_pc' = "done"
    /\ result' = "stream_error"
    /\ UNCHANGED << T, src, cached_for, exists, file, expected, resume_at, status,
                    startFile, startExists, gets, written, delivered >>

\* the process is killed or the caller aborts while the fetch waits on the network
fetch_abort ==
    /\ f_pc \in {"get", "stream"}
    /\ bodyLeft' = << >>
    /\ f_pc' = "done"
    /\ result' = "aborted"
    /\ UNCHANGED << T, src, cached_for, exists, file, expected, resume_at, status,
                    startFile, startExists, gets, written, delivered >>

InitFetch ==
    /\ T \in 1..MaxT
    /\ src = 1
    /\ cached_for = 0
    /\ exists = FALSE
    /\ file = << >>
    /\ f_pc = "idle"
    /\ expected = NoneInt
    /\ resume_at = 0
    /\ status = 0
    /\ bodyLeft = << >>
    /\ result = "none"
    /\ startFile = << >>
    /\ startExists = FALSE
    /\ gets = 0
    /\ written = << >>
    /\ delivered = FALSE
    /\ SearchParked
    /\ AssembleParked
    /\ CompositeParked
    /\ AuthParked
    /\ BulkParked
    /\ ExtractParked
    /\ ParamsParked

NextFetch ==
    \/ fetch_call /\ UNCHANGED << searchVars, assembleVars, compositeVars, authVars, bulkVars, extractVars, paramVars >>
    \/ fetch_response /\ UNCHANGED << searchVars, assembleVars, compositeVars, authVars, bulkVars, extractVars, paramVars >>
    \/ fetch_request_raises /\ UNCHANGED << searchVars, assembleVars, compositeVars, authVars, bulkVars, extractVars, paramVars >>
    \/ fetch_chunk /\ UNCHANGED << searchVars, assembleVars, compositeVars, authVars, bulkVars, extractVars, paramVars >>
    \/ fetch_stream_end /\ UNCHANGED << searchVars, assembleVars, compositeVars, authVars, bulkVars, extractVars, paramVars >>
    \/ fetch_stream_raises /\ UNCHANGED << searchVars, assembleVars, compositeVars, authVars, bulkVars, extractVars, paramVars >>
    \/ fetch_abort /\ UNCHANGED << searchVars, assembleVars, compositeVars, authVars, bulkVars, extractVars, paramVars >>

SpecFetch == InitFetch /\ [][NextFetch]_vars

\* ================================================================ cmip6.py
\* A Python str-or-None value compared lexically is [none, s], s a sequence of
\* character codes; None is [none |-> TRUE, s |-> << >>].
NoneVal == [none |-> TRUE, s |-> << >>]
Text(s) == [none |-> FALSE, s |-> s]

\* str < str: lexicographic by character, a proper prefix first
RECURSIVE LexLess(_, _)
LexLess(a, b) ==
    IF b = << >> THEN FALSE
    ELSE IF a = << >> THEN TRUE
    ELSE IF Head(a) # Head(b) THEN Head(a) < Head(b)
    ELSE LexLess(Tail(a), Tail(b))

LexLeq(a, b) == a = b \/ LexLess(a, b)

\* sorted(S) for a set of strings
RECURSIVE SortedStrings(_)
SortedStrings(S) ==
    IF S = { } THEN << >>
    ELSE LET m == CHOOSE x \in S : \A y \in S : LexLeq(x, y)
         IN  << m >> \o SortedStrings(S \ { m })

\* `if rec.member_id`: neither None nor ""
HasMember(rec) == ~rec.member_id.none /\ rec.member_id.s # << >>

RECURSIVE FirstMember(_)
FirstMember(recs) ==
    IF recs = << >> THEN NoneVal
    ELSE IF HasMember(recs[1]) THEN recs[1].member_id
    ELSE FirstMember(Tail(recs))

ChooseMemberBug(recs, pin) ==
    IF ~pin.none THEN pin
    ELSE IF FirstMember(recs) = NoneVal THEN recs[1].member_id ELSE FirstMember(recs)

ChooseMemberNoneBug(recs, pin) ==
    IF ~pin.none THEN pin
    ELSE IF FirstMember(recs) = NoneVal THEN NoneVal ELSE FirstMember(recs)

\* lines 133-139: the member to open
ChooseMember(recs, pin) ==
    IF ~pin.none THEN pin
    ELSE LET member_choices ==
                 SortedStrings({ recs[i].member_id.s : i \in { j \in 1..Len(recs) : HasMember(recs[j]) } })
         IN  IF member_choices = << >>
             THEN recs[1].member_id
             ELSE Text(member_choices[1])

FilterMemberBug(recs, m) == recs

\* [rec for rec in records if rec.member_id == member]
RECURSIVE FilterMember(_, _)
FilterMember(recs, m) ==
    IF recs = << >> THEN << >>
    ELSE IF recs[1].member_id = m THEN << recs[1] >> \o FilterMember(Tail(recs), m)
    ELSE FilterMember(Tail(recs), m)

\* _sort_key: (svc_rank, rec.datetime_start or "")
svc_rank(rec) == IF rec.service = "HTTPServer" THEN 0 ELSE 1
start_key(rec) == IF rec.datetime_start.none THEN << >> ELSE rec.datetime_start.s

KeyLess(a, b) ==
    \/ svc_rank(a) < svc_rank(b)
    \/ svc_rank(a) = svc_rank(b) /\ LexLess(start_key(a), start_key(b))

\* list.sort(key=...) is stable: insert each record after the records whose key
\* is not greater.
InsertByKeyBug(sorted, rec) == Append(sorted, rec)

RECURSIVE InsertByKey(_, _)
InsertByKey(sorted, rec) ==
    IF sorted = << >> THEN << rec >>
    ELSE IF KeyLess(rec, sorted[1]) THEN << rec >> \o sorted
    ELSE << sorted[1] >> \o InsertByKey(Tail(sorted), rec)

RECURSIVE SortByKey(_, _)
SortByKey(recs, acc) ==
    IF recs = << >> THEN acc
    ELSE SortByKey(Tail(recs), InsertByKey(acc, recs[1]))

RECURSIVE SliceBug(_, _, _)
SliceBug(rec, times, win) ==
    IF times = << >> THEN << >>
    ELSE (IF win[1] <= times[1] /\ times[1] < win[2]
          THEN << [time |-> times[1], url |-> rec.url] >> ELSE << >>)
         \o SliceBug(rec, Tail(times), win)

\* open_point_timeseries: the file's points inside [time_start, time_end], in file order
RECURSIVE Slice(_, _, _)
Slice(rec, times, win) ==
    IF times = << >> THEN << >>
    ELSE (IF win[1] <= times[1] /\ times[1] <= win[2]
          THEN << [time |-> times[1], url |-> rec.url] >> ELSE << >>)
         \o Slice(rec, Tail(times), win)

\* combined.sortby("time"): a stable sort of the points by timestamp
RECURSIVE InsertByTime(_, _)
InsertByTime(sorted, pt) ==
    IF sorted = << >> THEN << pt >>
    ELSE IF pt.time < sorted[1].time THEN << pt >> \o sorted
    ELSE << sorted[1] >> \o InsertByTime(Tail(sorted), pt)

SortByTimeBug(pts, acc) == acc \o pts

RECURSIVE SortByTime(_, _)
SortByTime(pts, acc) ==
    IF pts = << >> THEN acc
    ELSE SortByTime(Tail(pts), InsertByTime(acc, pts[1]))

\* xr.concat(slices, dim="time")
RECURSIVE Concat(_)
Concat(ss) == IF ss = << >> THEN << >> ELSE ss[1] \o Concat(Tail(ss))

\* ---- file records a search can hand to the assembly
RecordKinds ==
    << [member_id |-> Text(<< 1 >>), service |-> "HTTPServer", url |-> "a",
        datetime_start |-> Text(<< 1 >>), times |-> << 1, 2 >>],
       [member_id |-> Text(<< 1 >>), service |-> "HTTPServer", url |-> "b",
        datetime_start |-> Text(<< 3 >>), times |-> << 3, 4 >>],
       [member_id |-> Text(<< 1, 0 >>), service |-> "OPENDAP", url |-> "c",
        datetime_start |-> NoneVal, times |-> << 1, 2 >>],
       [member_id |-> Text(<< 2 >>), service |-> "HTTPServer", url |-> "d",
        datetime_start |-> Text(<< 2 >>), times |-> << 2, 3 >>],
       [member_id |-> NoneVal, service |-> "HTTPServer", url |-> "e",
        datetime_start |-> Text(<< 1 >>), times |-> << 1, 2 >>],
       [member_id |-> Text(<< >>), service |-> "OPENDAP", url |-> "f",
        datetime_start |-> Text(<< 3 >>), times |-> << 3, 4 >>],
       [member_id |-> Text(<< 1 >>), service |-> "OPENDAP", url |-> "g",
        datetime_start |-> NoneVal, times |-> << 1, 2 >>],
       [member_id |-> Text(<< 1 >>), service |-> "OPENDAP", url |-> "h",
        datetime_start |-> NoneVal, times |-> << 3, 4 >>] >>

NumRecordKinds == Len(RecordKinds)

\* the url field of these records names a file on one host
RecordUrl(name) == [host |-> "n1", dir |-> "x", name |-> << name >>, query |-> ""]

\* local_path of the file open_point_timeseries fetches for a record
RecordPath(rec) == CachePath(RecordUrl(rec.url))

AssemblePaths == { RecordPath(RecordKinds[k]) : k \in 1..NumRecordKinds }

\* What open_point_timeseries leaves at local_path when it raises: the file as
\* it was (request or status error, extraction error), a partial file (stream
\* broken or short after the file was opened for writing), or a complete file
\* whose extraction failed.
FailureLeaves(before) == { before, "partial", "complete" }

RecordLists ==
    UNION { { [i \in 1..n |-> RecordKinds[ks[i]]] : ks \in [1..n -> 1..NumRecordKinds] }
            : n \in 0..MaxRecs }

Pins == { NoneVal, Text(<< 1 >>), Text(<< 2, 0 >>) }
Windows == { << 1, 4 >>, << 2, 3 >> }

\* _open_member_timeseries up to the first transfer: search result, member
\* choice, filter, sort
NoEntriesBug(recs) == FALSE
\* `if not records`
NoEntries(recs) == recs = << >>

assemble_call ==
    /\ a_pc = "idle"
    /\ IF NoEntries(a_records)
       THEN /\ a_pc' = "error"
            /\ a_error' = "no_entries"
            /\ UNCHANGED << member, member_records >>
       ELSE IF pinned.none /\ a_records = << >>
       THEN \* records[0] of an empty list raises IndexError
            /\ a_pc' = "error"
            /\ a_error' = "index_error"
            /\ UNCHANGED << member, member_records >>
       ELSE LET m == ChooseMember(a_records, pinned)
                mr == FilterMember(a_records, m)
            IN  /\ member' = m
                /\ IF mr = << >>
                   THEN /\ a_pc' = "error"
                        /\ a_error' = "member_not_found"
                        /\ UNCHANGED member_records
                   ELSE /\ a_pc' = "transfer"
                        /\ member_records' = SortByKey(mr, << >>)
                        /\ UNCHANGED a_error
    /\ UNCHANGED << a_records, pinned, window, slices, combined, a_cache, completed >>

\* one iteration of `for rec in member_records`; after the last one the
\* concatenation and the sort by time
assemble_open ==
    /\ a_pc = "transfer"
    /\ LET rec == member_records[Len(slices) + 1]
           all == Append(slices, Slice(rec, rec.times, window))
       IN  /\ slices' = all
           /\ a_cache' = [a_cache EXCEPT ![RecordPath(rec)] = "complete"]
           /\ completed' = completed \cup { RecordPath(rec) }
           /\ IF Len(all) = Len(member_records)
              THEN /\ combined' = SortByTime(IF Len(all) > 1 THEN Concat(all) ELSE all[1], << >>)
                   /\ a_pc' = "done"
              ELSE UNCHANGED << combined, a_pc >>
    /\ UNCHANGED << a_records, pinned, window, member, member_records, a_error >>

\* open_point_timeseries raises (transfer or extraction failed)
assemble_open_raises ==
    /\ a_pc = "transfer"
    /\ a_pc' = "error"
    /\ a_error' = "open_failed"
    /\ LET path == RecordPath(member_records[Len(slices) + 1])
       IN  \E left \in FailureLeaves(a_cache[path]) :
               a_cache' = [a_cache EXCEPT ![path] = left]
    /\ UNCHANGED << a_records, pinned, window, member, member_records, slices, combined, completed >>

InitAssemble ==
    /\ a_records \in RecordLists
    /\ pinned \in Pins
    /\ window \in Windows
    /\ a_pc = "idle"
    /\ member = NoneVal
    /\ member_records = << >>
    /\ slices = << >>
    /\ combined = << >>
    /\ a_error = ""
    /\ a_cache = [p \in AssemblePaths |-> "absent"]
    /\ completed = { }
    /\ SearchParked
    /\ FetchParked
    /\ CompositeParked
    /\ AuthParked
    /\ BulkParked
    /\ ExtractParked
    /\ ParamsParked

NextAssemble ==
    \/ assemble_call /\ UNCHANGED << searchVars, fetchVars, compositeVars, authVars, bulkVars, extractVars, paramVars >>
    \/ assemble_open /\ UNCHANGED << searchVars, fetchVars, compositeVars, authVars, bulkVars, extractVars, paramVars >>
    \/ assemble_open_raises /\ UNCHANGED << searchVars, fetchVars, compositeVars, authVars, bulkVars, extractVars, paramVars >>

SpecAssemble == InitAssemble /\ [][NextAssemble]_vars

\* ================================================================ cmip6.py: open_all_timeseries
\* start_year of the scenario segment
ScenarioStart == 2015

\* the slices of `for rec in member_records`
RECURSIVE OpenAll(_, _)
OpenAll(recs, win) ==
    IF recs = << >> THEN << >>
    ELSE << Slice(recs[1], recs[1].times, win) >> \o OpenAll(Tail(recs), win)

\* _open_member_timeseries as one call whose transfers all succeed: the error
\* it raises ("" when none) and the series it returns
MemberSeries(recs, pin, win) ==
    IF recs = << >> THEN [error |-> "no_entries", series |-> << >>]
    ELSE LET mr == FilterMember(recs, ChooseMember(recs, pin))
         IN  IF mr = << >> THEN [error |-> "member_not_found", series |-> << >>]
             ELSE LET opened == OpenAll(SortByKey(mr, << >>), win)
                  IN  [error |-> "",
                       series |-> SortByTime(IF Len(opened) > 1 THEN Concat(opened) ELSE opened[1], << >>)]

\* ---- file records of the two experiments; timestamps are years
SegmentKinds ==
    << [member_id |-> Text(<< 1 >>), service |-> "HTTPServer", url |-> "h1",
        datetime_start |-> Text(<< 1 >>), times |-> << 2013, 2014 >>],
       [member_id |-> Text(<< 1 >>), service |-> "HTTPServer", url |-> "h2",
        datetime_start |-> Text(<< 2 >>), times |-> << 2015, 2016 >>],
       [member_id |-> Text(<< 1 >>), service |-> "HTTPServer", url |-> "s1",
        datetime_start |-> Text(<< 2 >>), times |-> << 2015, 2016 >>],
       [member_id |-> Text(<< 2 >>), service |-> "HTTPServer", url |-> "m2",
        datetime_start |-> Text(<< 1 >>), times |-> << 2014, 2015 >>] >>

NumSegmentKinds == Len(SegmentKinds)

SegmentLists ==
    UNION { { [i \in 1..n |-> SegmentKinds[ks[i]]] : ks \in [1..n -> 1..NumSegmentKinds] }
            : n \in 0..MaxSegRecs }

\* open_all_timeseries, the historical segment (lines 208-217)
open_all_hist ==
    /\ c_pc = "idle"
    /\ LET r == MemberSeries(hist_records, c_member,
                             << years.hist_start_year, years.hist_end_year >>)
       IN  IF r.error # ""
           THEN /\ c_pc' = "error"
                /\ UNCHANGED hist
           ELSE /\ c_pc' = "hist_done"
                /\ hist' = r.series
    /\ UNCHANGED << hist_records, ssp_records, c_member, years, ssp, all_combined >>

\* open_all_timeseries, the scenario segment and the concatenation (lines 218-229)
open_all_ssp ==
    /\ c_pc = "hist_done"
    /\ LET r == MemberSeries(ssp_records, c_member, << ScenarioStart, years.ssp_end_year >>)
       IN  IF r.error # ""
           THEN /\ c_pc' = "error"
                /\ UNCHANGED << ssp, all_combined >>
           ELSE /\ c_pc' = "done"
                /\ ssp' = r.series
                /\ all_combined' = Concat(<< hist, r.series >>)
    /\ UNCHANGED << hist_records, ssp_records, c_member, years, hist >>

\* a transfer of either segment raises
open_all_raises ==
    /\ c_pc \in {"idle", "hist_done"}
    /\ (IF c_pc = "idle" THEN hist_records ELSE ssp_records) # << >>
    /\ c_pc' = "error"
    /\ UNCHANGED << hist_records, ssp_records, c_member, years, hist, ssp, all_combined >>

InitComposite ==
    /\ hist_records \in SegmentLists
    /\ ssp_records \in SegmentLists
    /\ c_member \in { NoneVal, Text(<< 1 >>) }
    /\ years \in [hist_start_year : {2013}, hist_end_year : {2014, 2015, 2016}, ssp_end_year : {2016}]
    /\ c_pc = "idle"
    /\ hist = << >>
    /\ ssp = << >>
    /\ all_combined = << >>
    /\ SearchParked
    /\ FetchParked
    /\ AssembleParked
    /\ AuthParked
    /\ BulkParked
    /\ ExtractParked
    /\ ParamsParked

NextComposite ==
    \/ open_all_hist /\ UNCHANGED << searchVars, fetchVars, assembleVars, authVars, bulkVars, extractVars, paramVars >>
    \/ open_all_ssp /\ UNCHANGED << searchVars, fetchVars, assembleVars, authVars, bulkVars, extractVars, paramVars >>
    \/ open_all_raises /\ UNCHANGED << searchVars, fetchVars, assembleVars, authVars, bulkVars, extractVars, paramVars >>

SpecComposite == InitComposite /\ [][NextComposite]_vars

\* ================================================================ esgf_auth.py
\* pool threads of the bulk downloader (max_workers); worker 1 is also the main thread
Workers == 1..MaxWorkers

\* no access token
NoToken == 0

\* the token file after json.dump of a payload, and after open("w") alone
Complete(cred) ==
    [state |-> "complete", access_token |-> cred.access_token, refresh_token |-> cred.refresh_token]
Truncated == [state |-> "empty", access_token |-> 0, refresh_token |-> FALSE]

ConfiguredBug(cid) == cid # NoneStr

\* `if not client_id`
Configured(cid) == cid # NoneStr /\ cid # ""

\* _load_tokens: None on FileNotFoundError, the dict of a JSON file, and
\* json.load raising on a file that holds no JSON document
LoadTokens(f) ==
    IF f.state = "absent" THEN "None"
    ELSE IF f.state = "complete" THEN "dict"
    ELSE "raises"

\* `stored and stored.get("refresh_token")`
Reusable(f) == LoadTokens(f) = "dict" /\ f.refresh_token

NeedsRefreshBug(expired) == FALSE

\* ensure_valid_token(): a refresh is made when the access token has expired
NeedsRefresh(expired) == expired

AfterRefreshBug == "attach"

\* on_refresh=_on_refresh(token_path): the handler runs inside ensure_valid_token
AfterRefresh == "save"

\* build_authenticated_session / _build_authorizer up to the choice between
\* no session, the stored credential and the interactive flow
build_call ==
    /\ b_pc = "start"
    /\ IF ~Configured(client_id)
       THEN /\ b_pc' = "disabled"
            /\ UNCHANGED << loaded, interactive, authorizer >>
       ELSE /\ loaded' = token_file
            /\ IF LoadTokens(token_file) = "raises"
               THEN /\ b_pc' = "build_error"
                    /\ UNCHANGED << interactive, authorizer >>
               ELSE IF Reusable(token_file)
               THEN /\ b_pc' = "ready"
                    /\ \E e \in BOOLEAN :
                           authorizer' = [access_token |-> token_file.access_token, expired |-> e]
                    /\ UNCHANGED interactive
               ELSE /\ b_pc' = "device_flow"
                    /\ interactive' = TRUE
                    /\ UNCHANGED authorizer
    /\ UNCHANGED << client_id, token_file, issued, w_pc, w_op, w_phase, w_new, w_saved,
                    w_failed, w_outcome, sent >>

\* _start_device_flow: oauth2_exchange_code_for_tokens answers
device_exchange ==
    /\ b_pc = "device_flow"
    /\ issued < MaxTokens
    /\ issued' = issued + 1
    /\ b_pc' = "device_save"
    /\ UNCHANGED << client_id, token_file, loaded, interactive, authorizer, w_pc, w_op, w_phase,
                    w_new, w_saved, w_failed, w_outcome, sent >>

\* _start_device_flow: the exchange raises
device_exchange_raises ==
    /\ b_pc = "device_flow"
    /\ b_pc' = "build_error"
    /\ UNCHANGED << client_id, token_file, issued, loaded, interactive, authorizer, w_pc, w_op,
                    w_phase, w_new, w_saved, w_failed, w_outcome, sent >>

\* _save_tokens in the device flow: path.open("w") creates or truncates the file
device_save_open ==
    /\ b_pc = "device_save"
    /\ token_file' = Truncated
    /\ b_pc' = "device_dump"
    /\ UNCHANGED << client_id, issued, loaded, interactive, authorizer, w_pc, w_op, w_phase,
                    w_new, w_saved, w_failed, w_outcome, sent >>

\* _save_tokens in the device flow: json.dump and close; the authorizer is returned
device_save_dump ==
    /\ b_pc = "device_dump"
    /\ token_file' = Complete([access_token |-> issued, refresh_token |-> TRUE])
    /\ authorizer' = [access_token |-> issued, expired |-> FALSE]
    /\ b_pc' = "ready"
    /\ UNCHANGED << client_id, issued, loaded, interactive, w_pc, w_op, w_phase,
                    w_new, w_saved, w_failed, w_outcome, sent >>

\* a request as the server receives it, with what was true when it was sent:
\* whether its bearer token is one the authorization server issued and whether
\* it had expired, whether the sending call had refreshed the token, and
\* whether by then its handler had written the new credential (which, with no
\* other thread active, is then the file's content)
Request(w) ==
    [bearer |-> authorizer.access_token \in 1..issued, expired |-> authorizer.expired,
     refreshed |-> w_new[w] # NoToken,
     persisted |-> /\ w_saved[w]
                   /\ (\A v \in Workers \ { w } : w_pc[v] = "idle")
                          => (token_file.state = "complete" /\ token_file.access_token = w_new[w])]

\* ensure_valid_token returned: _auth_headers / auth_headers builds the explicit
\* header, the HEAD probe and the content GET are sent; after the probe the
\* fetch returns early when the local file is already complete
Passed(w) ==
    /\ w_new' = [w_new EXCEPT ![w] = NoToken]
    /\ w_saved' = [w_saved EXCEPT ![w] = FALSE]
    /\ IF w_phase[w] = "headers"
       THEN /\ w_phase' = [w_phase EXCEPT ![w] = "head"]
            /\ w_pc' = [w_pc EXCEPT ![w] = "ensure"]
            /\ UNCHANGED << sent, w_outcome >>
       ELSE IF w_phase[w] = "head"
       THEN /\ sent' = sent \cup { Request(w) }
            /\ \E complete \in BOOLEAN :
                   IF complete
                   THEN /\ w_pc' = [w_pc EXCEPT ![w] = "done"]
                        /\ w_outcome' = [w_outcome EXCEPT ![w] = "ok"]
                        /\ UNCHANGED w_phase
                   ELSE /\ w_pc' = [w_pc EXCEPT ![w] = "ensure"]
                        /\ w_phase' = [w_phase EXCEPT ![w] = "get"]
                        /\ UNCHANGED w_outcome
       ELSE /\ sent' = sent \cup { Request(w) }
            /\ w_pc' = [w_pc EXCEPT ![w] = "done"]
            /\ w_outcome' = [w_outcome EXCEPT ![w] = "ok"]
            /\ UNCHANGED w_phase

\* ensure_valid_token raised: `except Exception: return {}` in _auth_headers /
\* auth_headers, `except Exception: return None` around the HEAD probe, and no
\* handler around the content GET or the search GET
Raised(w) ==
    /\ w_failed' = [w_failed EXCEPT ![w] = TRUE]
    /\ IF w_phase[w] = "headers"
       THEN /\ w_phase' = [w_phase EXCEPT ![w] = "head"]
            /\ w_pc' = [w_pc EXCEPT ![w] = "ensure"]
            /\ UNCHANGED w_outcome
       ELSE IF w_phase[w] = "head"
       THEN /\ w_phase' = [w_phase EXCEPT ![w] = "get"]
            /\ w_pc' = [w_pc EXCEPT ![w] = "ensure"]
            /\ UNCHANGED w_outcome
       ELSE /\ w_pc' = [w_pc EXCEPT ![w] = "done"]
            /\ w_outcome' = [w_outcome EXCEPT ![w] = "error"]
            /\ UNCHANGED w_phase

\* search_files on the main thread, or download_one on a pool thread; the pool
\* hands out its tasks in order, so thread w starts after thread w - 1
worker_call(w) ==
    /\ b_pc = "ready"
    /\ w_pc[w] = "idle"
    /\ w > 1 => w_pc[w - 1] # "idle"
    /\ \E op \in {"search", "fetch"} :
           /\ op = "search" => (w = 1 /\ \A v \in Workers : w_pc[v] = "idle")
           /\ op = "fetch" => \A v \in Workers : (w_op[v] = "search" => w_pc[v] = "done")
           /\ w_op' = [w_op EXCEPT ![w] = op]
           /\ w_phase' = [w_phase EXCEPT ![w] = IF op = "fetch" THEN "headers" ELSE "get"]
    /\ w_pc' = [w_pc EXCEPT ![w] = "ensure"]
    /\ UNCHANGED << client_id, token_file, issued, b_pc, loaded, interactive, authorizer,
                    w_new, w_saved, w_failed, w_outcome, sent >>

\* GlobusRequestsAuth.__call__ / _auth_headers: ensure_valid_token() finds the
\* token valid (header attached, request sent) or starts a refresh
worker_ensure(w) ==
    /\ b_pc = "ready"
    /\ w_pc[w] = "ensure"
    /\ IF NeedsRefresh(authorizer.expired)
       THEN /\ w_pc' = [w_pc EXCEPT ![w] = "refreshing"]
            /\ UNCHANGED << w_phase, w_new, w_saved, w_outcome, sent >>
       ELSE Passed(w)
    /\ UNCHANGED << client_id, token_file, issued, b_pc, loaded, interactive, authorizer,
                    w_op, w_failed >>

\* the refresh request is answered with a new access token
worker_refresh(w) ==
    /\ b_pc = "ready"
    /\ w_pc[w] = "refreshing"
    /\ issued < MaxTokens
    /\ issued' = issued + 1
    /\ w_new' = [w_new EXCEPT ![w] = issued + 1]
    /\ authorizer' = [access_token |-> issued + 1, expired |-> FALSE]
    /\ w_pc' = [w_pc EXCEPT ![w] = AfterRefresh]
    /\ UNCHANGED << client_id, token_file, b_pc, loaded, interactive, w_op, w_phase, w_saved,
                    w_failed, w_outcome, sent >>

\* the refresh request fails: ensure_valid_token raises
worker_refresh_raises(w) ==
    /\ b_pc = "ready"
    /\ w_pc[w] = "refreshing"
    /\ Raised(w)
    /\ UNCHANGED << client_id, token_file, issued, b_pc, loaded, interactive, authorizer,
                    w_op, w_new, w_saved, sent >>

\* _on_refresh handler, _save_tokens: path.open("w") truncates the file
worker_save_open(w) ==
    /\ b_pc = "ready"
    /\ w_pc[w] = "save"
    /\ token_file' = Truncated
    /\ w_pc' = [w_pc EXCEPT ![w] = "dump"]
    /\ UNCHANGED << client_id, issued, b_pc, loaded, interactive, authorizer, w_op, w_phase,
                    w_new, w_saved, w_failed, w_outcome, sent >>

\* _on_refresh handler, _save_tokens: json.dump and close; the payload's
\* refresh_token is tokens.get("refresh_token"), present or not in the answer
worker_save_dump(w) ==
    /\ b_pc = "ready"
    /\ w_pc[w] = "dump"
    /\ \E rt \in BOOLEAN :
           token_file' = Complete([access_token |-> w_new[w], refresh_token |-> rt])
    /\ w_saved' = [w_saved EXCEPT ![w] = TRUE]
    /\ w_pc' = [w_pc EXCEPT ![w] = "attach"]
    /\ UNCHANGED << client_id, issued, b_pc, loaded, interactive, authorizer, w_op, w_phase,
                    w_new, w_failed, w_outcome, sent >>

\* ensure_valid_token returned after a refresh: header attached, request sent
worker_attach(w) ==
    /\ b_pc = "ready"
    /\ w_pc[w] = "attach"
    /\ Passed(w)
    /\ UNCHANGED << client_id, token_file, issued, b_pc, loaded, interactive, authorizer,
                    w_op, w_failed >>

\* `http = session or requests` with no session: the request goes out through
\* plain requests, with no auth hook and no Authorization header
plain_request ==
    /\ b_pc = "disabled"
    /\ sent' = sent \cup { [bearer |-> FALSE, expired |-> FALSE, refreshed |-> FALSE, persisted |-> FALSE] }
    /\ UNCHANGED << client_id, token_file, issued, b_pc, loaded, interactive, authorizer,
                    w_pc, w_op, w_phase, w_new, w_saved, w_failed, w_outcome >>

\* the access token's lifetime ends while no request is between its validity
\* check and its sending
token_expires ==
    /\ b_pc = "ready"
    /\ ~authorizer.expired
    /\ \A w \in Workers : w_pc[w] \in {"idle", "ensure", "done"}
    /\ \E w \in Workers : w_pc[w] # "done"
    /\ authorizer' = [authorizer EXCEPT !.expired = TRUE]
    /\ UNCHANGED << client_id, token_file, issued, b_pc, loaded, interactive, w_pc, w_op, w_phase,
                    w_new, w_saved, w_failed, w_outcome, sent >>

\* the process dies: its memory is gone, the token file stays as it is
crash ==
    /\ b_pc \in {"device_flow", "device_save", "device_dump", "ready"}
    /\ b_pc' = "crashed"
    /\ loaded' = NoCredential
    /\ interactive' = FALSE
    /\ authorizer' = [access_token |-> 0, expired |-> FALSE]
    /\ w_pc' = [w \in Workers |-> "idle"]
    /\ w_op' = [w \in Workers |-> "none"]
    /\ w_phase' = [w \in Workers |-> "get"]
    /\ w_new' = [w \in Workers |-> NoToken]
    /\ w_saved' = [w \in Workers |-> FALSE]
    /\ w_failed' = [w \in Workers |-> FALSE]
    /\ w_outcome' = [w \in Workers |-> "none"]
    /\ sent' = { }
    /\ UNCHANGED << client_id, token_file, issued >>

\* the next process start builds the session again from the token file
restart ==
    /\ b_pc = "crashed"
    /\ b_pc' = "start"
    /\ UNCHANGED << client_id, token_file, issued, loaded, interactive, authorizer, w_pc, w_op,
                    w_phase, w_new, w_saved, w_failed, w_outcome, sent >>

InitAuth ==
    /\ client_id \in { NoneStr, "", "cid" }
    /\ token_file \in { NoCredential, Complete([access_token |-> 1, refresh_token |-> TRUE]) }
    /\ issued = IF token_file = NoCredential THEN 0 ELSE 1
    /\ b_pc = "start"
    /\ loaded = NoCredential
    /\ interactive = FALSE
    /\ authorizer = [access_token |-> 0, expired |-> FALSE]
    /\ w_pc = [w \in Workers |-> "idle"]
    /\ w_op = [w \in Workers |-> "none"]
    /\ w_phase = [w \in Workers |-> "get"]
    /\ w_new = [w \in Workers |-> NoToken]
    /\ w_saved = [w \in Workers |-> FALSE]
    /\ w_failed = [w \in Workers |-> FALSE]
    /\ w_outcome = [w \in Workers |-> "none"]
    /\ sent = { }
    /\ SearchParked
    /\ FetchParked
    /\ AssembleParked
    /\ CompositeParked
    /\ BulkParked
    /\ ExtractParked
    /\ ParamsParked

NextAuth ==
    \/ build_call /\ UNCHANGED << searchVars, fetchVars, assembleVars, compositeVars, bulkVars, extractVars, paramVars >>
    \/ device_exchange /\ UNCHANGED << searchVars, fetchVars, assembleVars, compositeVars, bulkVars, extractVars, paramVars >>
    \/ device_exchange_raises /\ UNCHANGED << searchVars, fetchVars, assembleVars, compositeVars, bulkVars, extractVars, paramVars >>
    \/ device_save_open /\ UNCHANGED << searchVars, fetchVars, assembleVars, compositeVars, bulkVars, extractVars, paramVars >>
    \/ device_save_dump /\ UNCHANGED << searchVars, fetchVars, assembleVars, compositeVars, bulkVars, extractVars, paramVars >>
    \/ \E w \in Workers : worker_call(w) /\ UNCHANGED << searchVars, fetchVars, assembleVars, compositeVars, bulkVars, extractVars, paramVars >>
    \/ \E w \in Workers : worker_ensure(w) /\ UNCHANGED << searchVars, fetchVars, assembleVars, compositeVars, bulkVars, extractVars, paramVars >>
    \/ \E w \in Workers : worker_refresh(w) /\ UNCHANGED << searchVars, fetchVars, assembleVars, compositeVars, bulkVars, extractVars, paramVars >>
    \/ \E w \in Workers : worker_refresh_raises(w) /\ UNCHANGED << searchVars, fetchVars, assembleVars, compositeVars, bulkVars, extractVars, paramVars >>
    \/ \E w \in Workers : worker_save_open(w) /\ UNCHANGED << searchVars, fetchVars, assembleVars, compositeVars, bulkVars, extractVars, paramVars >>
    \/ \E w \in Workers : worker_save_dump(w) /\ UNCHANGED << searchVars, fetchVars, assembleVars, compositeVars, bulkVars, extractVars, paramVars >>
    \/ \E w \in Workers : worker_attach(w) /\ UNCHANGED << searchVars, fetchVars, assembleVars, compositeVars, bulkVars, extractVars, paramVars >>
    \/ plain_request /\ UNCHANGED << searchVars, fetchVars, assembleVars, compositeVars, bulkVars, extractVars, paramVars >>
    \/ token_expires /\ UNCHANGED << searchVars, fetchVars, assembleVars, compositeVars, bulkVars, extractVars, paramVars >>
    \/ crash /\ UNCHANGED << searchVars, fetchVars, assembleVars, compositeVars, bulkVars, extractVars, paramVars >>
    \/ restart /\ UNCHANGED << searchVars, fetchVars, assembleVars, compositeVars, bulkVars, extractVars, paramVars >>

SpecAuth == InitAuth /\ [][NextAuth]_vars

\* ================================================================ download_cmip6_bulk.py: main
\* A URL is [scheme, host, name]: name is the basename of its path, << >> when
\* the path ends in "/".
ensure_https(url) == IF url.scheme = "http://" THEN [url EXCEPT !.scheme = "https://"] ELSE url

\* os.path.basename(url.split("?")[0]) or f"{model}_{exp}.nc"
FileName(url, model, exp) ==
    IF url.name # << >> THEN url.name ELSE << model, "_", exp, ".nc" >>

\* dest = CACHE_ROOT / model / exp / fname
Dest(model, exp, url) == [model |-> model, exp |-> exp, fname |-> FileName(url, model, exp)]

\* lines 118-129: one (url, dest) pair per record found
Planned(recs) ==
    [i \in 1..Len(recs) |->
        [url |-> ensure_https(recs[i].url),
         dest |-> Dest(recs[i].model, recs[i].exp, ensure_https(recs[i].url))]]

DedupStepBug(uniq, pair) == Append(uniq, pair)

\* uniq[dest] = url: a dict keeps the position of a key's first insertion and
\* the value of its last
DedupStep(uniq, pair) ==
    IF \E i \in 1..Len(uniq) : uniq[i].dest = pair.dest
    THEN [i \in 1..Len(uniq) |-> IF uniq[i].dest = pair.dest THEN pair ELSE uniq[i]]
    ELSE Append(uniq, pair)

\* for url, dest in records: uniq[dest] = url; records = [(u, d) for d, u in uniq.items()]
RECURSIVE Dedup(_, _)
Dedup(pairs, uniq) ==
    IF pairs = << >> THEN uniq ELSE Dedup(Tail(pairs), DedupStep(uniq, Head(pairs)))

BulkUrls ==
    << [scheme |-> "http://", host |-> "n1", name |-> << "f.nc" >>],
       [scheme |-> "https://", host |-> "n2", name |-> << "f.nc" >>],
       [scheme |-> "https://", host |-> "n1", name |-> << "g.nc" >>],
       [scheme |-> "https://", host |-> "n1", name |-> << >>] >>

BulkModels == { "A", "B" }

FoundLists ==
    UNION { [1..n -> [model : BulkModels, exp : { "historical" },
                      url : { BulkUrls[k] : k \in 1..Len(BulkUrls) }]] : n \in 0..MaxFound }

\* searches, planning, size estimate; then the pool is entered
bulk_plan ==
    /\ bulk_pc = "start"
    /\ tasks' = Dedup(Planned(found), << >>)
    /\ bulk_pc' = "pool"
    /\ UNCHANGED << found, max_workers, started, running >>

\* --dry-run, or the estimate exceeds --max-total-bytes: main returns before the pool
bulk_return_early ==
    /\ bulk_pc = "start"
    /\ tasks' = Dedup(Planned(found), << >>)
    /\ bulk_pc' = "done"
    /\ UNCHANGED << found, max_workers, started, running >>

\* pool.map(task, records): an idle worker thread takes the next record, in order
pool_start ==
    /\ bulk_pc = "pool"
    /\ started < Len(tasks)
    /\ Cardinality(running) < max_workers
    /\ started' = started + 1
    /\ running' = running \cup { started + 1 }
    /\ UNCHANGED << found, max_workers, bulk_pc, tasks >>

\* task returns ("ok" | "skip" | "error", msg); it never raises
task_return(i) ==
    /\ bulk_pc = "pool"
    /\ i \in running
    /\ running' = running \ { i }
    /\ UNCHANGED << found, max_workers, bulk_pc, tasks, started >>

\* the pool's `with` block ends when every task has returned
pool_exit ==
    /\ bulk_pc = "pool"
    /\ started = Len(tasks)
    /\ running = { }
    /\ bulk_pc' = "done"
    /\ UNCHANGED << found, max_workers, tasks, started, running >>

InitBulk ==
    /\ found \in FoundLists
    /\ max_workers \in 1..MaxWorkers
    /\ bulk_pc = "start"
    /\ tasks = << >>
    /\ started = 0
    /\ running = { }
    /\ SearchParked
    /\ FetchParked
    /\ AssembleParked
    /\ CompositeParked
    /\ AuthParked
    /\ ExtractParked
    /\ ParamsParked

NextBulk ==
    \/ bulk_plan /\ UNCHANGED << searchVars, fetchVars, assembleVars, compositeVars, authVars, extractVars, paramVars >>
    \/ bulk_return_early /\ UNCHANGED << searchVars, fetchVars, assembleVars, compositeVars, authVars, extractVars, paramVars >>
    \/ pool_start /\ UNCHANGED << searchVars, fetchVars, assembleVars, compositeVars, authVars, extractVars, paramVars >>
    \/ \E i \in 1..MaxFound : task_return(i) /\ UNCHANGED << searchVars, fetchVars, assembleVars, compositeVars, authVars, extractVars, paramVars >>
    \/ pool_exit /\ UNCHANGED << searchVars, fetchVars, assembleVars, compositeVars, authVars, extractVars, paramVars >>

SpecBulk == InitBulk /\ [][NextBulk]_vars

\* ================================================================ esgf_opendap.py: point extraction
LatAliases == << "lat", "latitude", "nav_lat" >>
LonAliases == << "lon", "longitude", "nav_lon" >>

\* for name in names: if name in ds.coords: break / else: raise KeyError
RECURSIVE FirstIn(_, _)
FirstIn(names, coords) ==
    IF names = << >> THEN NoneStr
    ELSE IF names[1] \in coords THEN names[1]
    ELSE FirstIn(Tail(names), coords)

\* the keyword arguments of `ds[variable_id].sel(lat=latitude, lon=longitude, method="nearest")`
SelNames == << "lat", "lon" >>

CoordNames == { "lat", "latitude", "nav_lat", "lon", "longitude", "nav_lon", "time" }

\* lat_name, lon_name = _guess_coords(ds)
extract_guess ==
    /\ x_pc = "opened"
    /\ LET lat == FirstIn(LatAliases, x_coords)
           lon == FirstIn(LonAliases, x_coords)
       IN  IF lat = NoneStr
           THEN /\ x_pc' = "error"
                /\ x_error' = "coordinate_not_found"
                /\ UNCHANGED << lat_name, lon_name >>
           ELSE IF lon = NoneStr
           THEN /\ x_pc' = "error"
                /\ x_error' = "coordinate_not_found"
                /\ lat_name' = lat
                /\ UNCHANGED lon_name
           ELSE /\ x_pc' = "guessed"
                /\ lat_name' = lat
                /\ lon_name' = lon
                /\ UNCHANGED x_error
    /\ UNCHANGED << x_coords, x_used >>

\* the nearest-point lookup: sel raises for a name that is no coordinate of the data
extract_sel ==
    /\ x_pc = "guessed"
    /\ x_used' = SelNames
    /\ IF \A i \in 1..Len(SelNames) : SelNames[i] \in x_coords
       THEN /\ x_pc' = "done"
            /\ UNCHANGED x_error
       ELSE /\ x_pc' = "error"
            /\ x_error' = "sel_failed"
    /\ UNCHANGED << x_coords, lat_name, lon_name >>

InitExtract ==
    /\ x_coords \in SUBSET CoordNames
    /\ x_pc = "opened"
    /\ lat_name = NoneStr
    /\ lon_name = NoneStr
    /\ x_used = << >>
    /\ x_error = ""
    /\ SearchParked
    /\ FetchParked
    /\ AssembleParked
    /\ CompositeParked
    /\ AuthParked
    /\ BulkParked
    /\ ParamsParked

NextExtract ==
    \/ extract_guess /\ UNCHANGED << searchVars, fetchVars, assembleVars, compositeVars, authVars, bulkVars, paramVars >>
    \/ extract_sel /\ UNCHANGED << searchVars, fetchVars, assembleVars, compositeVars, authVars, bulkVars, paramVars >>

SpecExtract == InitExtract /\ [][NextExtract]_vars

\* ================================================================ esgf_search.py: _build_params
\* An experiment name is a sequence of tokens; str.lower() token by token.
Lower(tok) ==
    CASE tok = "SSP" -> "ssp"
      [] tok = "Historical" -> "historical"
      [] tok = "piControl" -> "picontrol"
      [] OTHER -> tok

LowerStr(str) == [i \in 1..Len(str) |-> Lower(str[i])]

StartsWith(str, prefix) == Len(str) >= Len(prefix) /\ SubSeq(str, 1, Len(prefix)) = prefix

ActivityWantedBug(activity, experiment) ==
    /\ activity \notin { "", NoneStr }
    /\ ~(StartsWith(experiment, << "ssp" >>) \/ experiment = << "historical" >>)

\* `if cfg.activity_id and not (exp_lower.startswith("ssp") or exp_lower == "historical")`
ActivityWanted(activity, experiment) ==
    LET exp_lower == LowerStr(experiment) IN
    /\ activity \notin { "", NoneStr }
    /\ ~(StartsWith(exp_lower, << "ssp" >>) \/ exp_lower = << "historical" >>)

BaseKeys == { "type", "project", "experiment_id", "source_id", "variable_id", "table_id",
              "latest", "replica", "distrib", "format", "limit" }

_build_params(activity, shards, experiment) ==
    [keys |-> BaseKeys
              \cup (IF ActivityWanted(activity, experiment) THEN { "activity_id" } ELSE { })
              \cup (IF shards \notin { "", NoneStr } THEN { "shards" } ELSE { }),
     activity_id |-> IF ActivityWanted(activity, experiment) THEN activity ELSE NoneStr]

Experiments ==
    { << "ssp", "245" >>, << "SSP", "245" >>, << "historical" >>, << "Historical" >>,
      << "historical", "-ext" >>, << "hist-nat" >>, << "piControl" >>, << >> }

\* params = _build_params(cfg, model=model, experiment=experiment)
params_build ==
    /\ q_pc = "idle"
    /\ q_params' = _build_params(q_activity, q_shards, q_experiment)
    /\ q_pc' = "paging"
    /\ UNCHANGED << q_activity, q_experiment, q_shards, q_sent >>

\* params_with_offset = {**params, "offset": offset}; http.get(url, params=params_with_offset)
params_page ==
    /\ q_pc = "paging"
    /\ Len(q_sent) < MaxPages
    /\ q_sent' = Append(q_sent, [q_params EXCEPT !.keys = @ \cup { "offset" }])
    /\ q_pc' \in (IF Len(q_sent) + 1 < MaxPages THEN { "paging", "done" } ELSE { "done" })
    /\ UNCHANGED << q_activity, q_experiment, q_shards, q_params >>

InitParams ==
    /\ q_activity \in { "", NoneStr, "CMIP", "DAMIP" }
    /\ q_experiment \in Experiments
    /\ q_shards \in { NoneStr, "shard1" }
    /\ q_pc = "idle"
    /\ q_params = [keys |-> { }, activity_id |-> NoneStr]
    /\ q_sent = << >>
    /\ SearchParked
    /\ FetchParked
    /\ AssembleParked
    /\ CompositeParked
    /\ AuthParked
    /\ BulkParked
    /\ ExtractParked

NextParams ==
    \/ params_build /\ UNCHANGED << searchVars, fetchVars, assembleVars, compositeVars, authVars, bulkVars, extractVars >>
    \/ params_page /\ UNCHANGED << searchVars, fetchVars, assembleVars, compositeVars, authVars, bulkVars, extractVars >>

SpecParams == InitParams /\ [][NextParams]_vars

\* ================================================================ claims: catalog search

\* C1 (as stated): when the server pages the catalog as asked, a finished search
\* returns exactly the records of all catalog entries, once each, in catalog order.
SearchEqualsUnpaged ==
    (s_pc = "done" /\ honest) =>
        records = _parse_docs(catalog, cfg.preferred_grid_labels)

\* C1 (amended): a finished search returns exactly the records of the first
\* min(total, limit * max_pages) catalog entries, once each, in catalog order;
\* so it equals the unpaged fetch whenever total <= limit * max_pages.
SearchEqualsUnpagedWithinBound ==
    (s_pc = "done" /\ honest) =>
        records = _parse_docs(SubSeq(catalog, 1, Min(Len(catalog), cfg.limit * cfg.max_pages)),
                              cfg.preferred_grid_labels)

SearchPagedWitness ==
    /\ s_pc = "done" /\ honest
    /\ Len(requests) >= 2
    /\ Len(catalog) <= cfg.limit * cfg.max_pages
    /\ Len(records) >= 2
    /\ Len(records) < Len(catalog)

\* C2: a search never issues more than max_pages catalog requests, whatever the
\* server answers, and after the max_pages-th request it is no longer paging.
SearchRequestsBounded ==
    /\ Len(requests) <= cfg.max_pages
    /\ (Len(requests) = cfg.max_pages => s_pc # "paging")

SearchFullPagesWitness ==
    /\ ~honest
    /\ s_pc = "done"
    /\ cfg.max_pages >= 2
    /\ Len(requests) = cfg.max_pages
    /\ offset = cfg.limit * cfg.max_pages

\* ================================================================ claims: resumable transfer

\* C3: a fetch that starts from a partial copy of the source (S < T bytes, a prefix of
\* the source), is served the content (200 or 206), is not interrupted and returns
\* success leaves exactly the source in the local file.
ResumeYieldsSource ==
    (/\ f_pc = "done" /\ result = "ok" /\ delivered
     /\ status \in {200, 206}
     /\ IsPrefix(startFile, Src) /\ Len(startFile) < T)
        => (exists /\ file = Src)

ResumeWitness ==
    /\ f_pc = "done" /\ result = "ok" /\ delivered
    /\ status = 206
    /\ startExists /\ Len(startFile) >= 1 /\ Len(startFile) < T
    /\ IsPrefix(startFile, Src)
    /\ Len(written) = T - Len(startFile)
    /\ file = Src

\* C4 (as stated): a fetch on a destination that already holds the complete file
\* issues no content GET, leaves the file unchanged and returns success.
FetchCompleteIsNoop ==
    (f_pc = "done" /\ result # "aborted" /\ startExists /\ startFile = Src)
        => (gets = 0 /\ file = startFile /\ exists /\ result = "skip")

\* C4 (amended): the same, when the probe reported a non-zero expected length.
FetchCompleteIsNoopWhenLengthKnown ==
    (startExists /\ startFile = Src /\ expected # NoneInt /\ expected # 0
     /\ f_pc \in {"get", "stream", "done"})
        => (f_pc = "done" /\ gets = 0 /\ file = startFile /\ exists /\ result = "skip")

FetchCompleteWitness ==
    /\ f_pc = "done" /\ result = "skip"
    /\ startExists /\ startFile = Src /\ T >= 2
    /\ expected = T /\ gets = 0 /\ file = Src

\* C5 (as stated): whenever a fetch returns success with a known expected length,
\* the local file's size is exactly that length.
SuccessMeansExactSize ==
    (f_pc = "done" /\ result \in {"ok", "skip"} /\ expected # NoneInt)
        => (exists /\ Len(file) = expected)

\* C6 (as stated): at every step the local file is absent or a byte prefix of the source.
CacheIsPrefixOfSource == exists => IsPrefix(file, Src)

\* C7 (as stated): a content response with a status other than 200 or 206 ends the
\* fetch in a fatal transfer error, with no response byte written to the local file.
OtherStatusIsFatal ==
    (status \notin {0, 200, 206})
        => (f_pc = "done" /\ result = "status_error" /\ written = << >>)

\* C8: when the stream has ended and the final size is below the known expected
\* length, the fetch reports the incomplete download, never success, and the short
\* file stays in place.
ShortResultIsIncomplete ==
    (f_pc = "done" /\ result \in {"ok", "incomplete"} /\ expected # NoneInt)
        => /\ (Len(file) < expected => (result = "incomplete" /\ exists))
           /\ (result = "incomplete" => Len(file) < expected)

ShortResultWitness ==
    /\ f_pc = "done" /\ result = "incomplete"
    /\ expected = T /\ exists
    /\ Len(file) >= 1 /\ Len(file) < T
    /\ IsPrefix(file, Src)

\* C9 (as stated): when a fetch ends in an error, every byte that was in the local
\* file before the call is still there.
FailedFetchKeepsBytes ==
    (f_pc = "done" /\ result \in {"status_error", "request_error", "stream_error", "incomplete"})
        => (IsPrefix(startFile, file) /\ (startExists => exists))

\* ================================================================ claims: assembly
Perms(n) == { p \in [1..n -> 1..n] : \A i, j \in 1..n : i # j => p[i] # p[j] }

MemberIds == { a_records[i].member_id.s : i \in { j \in 1..Len(a_records) : HasMember(a_records[j]) } }

\* C10: with no member pinned and some record carrying a non-empty member id, the
\* chosen member is the lexical minimum of the non-empty member ids, and every
\* permutation of the candidate records gives the same member.
MemberIsLexicalMinimum ==
    (a_pc \in {"transfer", "done", "error"} /\ pinned.none /\ MemberIds # { })
        => /\ ~member.none
           /\ member.s \in MemberIds
           /\ \A id \in MemberIds : LexLeq(member.s, id)
           /\ \A p \in Perms(Len(a_records)) :
                  ChooseMember([i \in 1..Len(a_records) |-> a_records[p[i]]], pinned) = member

MemberChoiceWitness ==
    /\ a_pc = "transfer" /\ pinned.none
    /\ Cardinality(MemberIds) >= 2
    /\ HasMember(a_records[1])
    /\ a_records[1].member_id # member
    /\ member = Text(<< 1 >>)
    /\ Text(<< 1, 0 >>) \in { a_records[i].member_id : i \in 1..Len(a_records) }

\* timestamps of a series, and the two orderings of a time axis
Times(pts) == { pts[i].time : i \in 1..Len(pts) }
NonDecreasing(pts) == \A i \in 1..(Len(pts) - 1) : pts[i].time <= pts[i + 1].time
StrictlyIncreasing(pts) == \A i \in 1..(Len(pts) - 1) : pts[i].time < pts[i + 1].time

\* C11: whatever the catalog order of the chosen member's files, the series one
\* assembly returns has non-decreasing timestamps.
AssembledNonDecreasing ==
    a_pc = "done" => NonDecreasing(combined)

\* an assembly whose concatenation was out of time order before the final sort
AssembledReorderedWitness ==
    /\ a_pc = "done"
    /\ Len(slices) >= 2
    /\ ~NonDecreasing(Concat(slices))
    /\ Len(combined) = 4
    /\ StrictlyIncreasing(combined)

\* C12: the assembled series is strictly time-ordered, no timestamp occurring
\* twice, also when file segments overlap or a file is listed twice.
AssembledStrictlyOrdered ==
    a_pc = "done" => StrictlyIncreasing(combined)

\* the in-window timestamps of the chosen member's files
MemberFileTimes ==
    UNION { { t \in Times(Slice(a_records[i], a_records[i].times, window)) : TRUE }
            : i \in { j \in 1..Len(a_records) : a_records[j].member_id = member } }

\* C13: with no member pinned, a returned series holds every in-window point of
\* every file of the chosen member (and nothing else), so consecutive files
\* covering the window leave no gap at a file boundary.
AssembledCoversMemberFiles ==
    (a_pc = "done" /\ pinned.none) =>
        /\ \A i \in 1..Len(a_records) :
               a_records[i].member_id = member =>
                   \A k \in 1..Len(a_records[i].times) :
                       (window[1] <= a_records[i].times[k] /\ a_records[i].times[k] <= window[2])
                           => \E j \in 1..Len(combined) :
                                  combined[j] = [time |-> a_records[i].times[k], url |-> a_records[i].url]
        /\ Times(combined) = MemberFileTimes
        /\ (\A t \in window[1]..window[2] : t \in MemberFileTimes)
               => \A t \in window[1]..window[2] : t \in Times(combined)

\* two consecutive files of the chosen member, whole window covered
AssembledConsecutiveWitness ==
    /\ a_pc = "done" /\ pinned.none
    /\ window = << 1, 4 >>
    /\ Len(member_records) = 2
    /\ member_records[1].times = << 1, 2 >>
    /\ member_records[2].times = << 3, 4 >>
    /\ Len(a_records) = 3
    /\ [i \in 1..Len(combined) |-> combined[i].time] = << 1, 2, 3, 4 >>

\* C14: the composite series has no timestamp twice and a non-decreasing time
\* axis, for every hist_end_year and all segment contents.
CompositeStrictlyOrdered ==
    c_pc = "done" => (StrictlyIncreasing(all_combined) /\ NonDecreasing(all_combined))

\* ================================================================ claims: authenticated session

\* C15: at most one token refresh (the refresh request and the write of the
\* token file that belongs to it) is in flight at any time.
OneRefreshInFlight ==
    b_pc = "ready" =>
        Cardinality({ w \in Workers : w_pc[w] \in {"refreshing", "save", "dump"} }) <= 1

\* C16: at every instant the token file holds a complete credential (the
\* previous or the new one), never an empty or partially written one.
TokenFileAlwaysWhole ==
    token_file.state \in {"absent", "complete"}

\* C17: a request sent by a call that refreshed the token is sent after that
\* call's handler wrote the new credential; with no other thread using the
\* session the token file then holds exactly that credential, from the end of
\* the write on (so also for a crash at any of these points).
RefreshPersistedBeforeSend ==
    /\ \A r \in sent : r.refreshed => r.persisted
    /\ \A w \in Workers :
           (b_pc = "ready" /\ w_pc[w] = "attach" /\ \A v \in Workers \ { w } : w_pc[v] = "idle")
               => (token_file.state = "complete" /\ token_file.access_token = w_new[w])

\* a request that went out with a freshly refreshed, already persisted token
RefreshPersistedWitness ==
    /\ b_pc = "ready"
    /\ \E r \in sent : r.refreshed /\ r.persisted /\ r.bearer
    /\ token_file.access_token = authorizer.access_token
    /\ token_file.state = "complete"
    /\ loaded.state = "complete"
    /\ token_file.access_token # loaded.access_token

\* C18: an operation during which a token refresh failed ends in an error, and
\* no request goes out without a valid bearer token.
RefreshFailureSurfaces ==
    /\ \A w \in Workers :
           (b_pc = "ready" /\ w_pc[w] = "done" /\ w_failed[w]) => w_outcome[w] = "error"
    /\ b_pc = "ready" => \A r \in sent : r.bearer /\ ~r.expired

\* C19: with authentication enabled, every request sent through the wrapped
\* session carries a bearer token the authorization server issued and that had
\* not expired when the request was sent, the token having been refreshed
\* first when it had expired.
RequestsCarryValidToken ==
    b_pc = "ready" => \A r \in sent : r.bearer /\ ~r.expired

\* one request sent with the stored token and one after a refresh
ValidTokenWitness ==
    /\ b_pc = "ready"
    /\ \E r \in sent : r.refreshed /\ ~r.expired
    /\ \E r \in sent : ~r.refreshed /\ r.bearer /\ ~r.expired
    /\ ~interactive

\* C20: building the session runs the interactive exchange exactly when a
\* client id is configured and the token file is absent or holds no refresh
\* token; a stored credential with a refresh token is reused; after an
\* interactive exchange the credential is on disk when the session is returned.
InteractiveIffNoStoredRefreshToken ==
    b_pc \in {"device_flow", "device_save", "device_dump", "ready", "disabled", "build_error"} =>
        /\ interactive <=> (Configured(client_id) /\ (loaded.state = "absent" \/ ~loaded.refresh_token))
        /\ (b_pc = "ready" /\ interactive /\ sent = { } /\ \A w \in Workers : w_pc[w] = "idle")
               => token_file = Complete([access_token |-> authorizer.access_token, refresh_token |-> TRUE])

\* C21: with no client id configured the build ends with no session, without
\* raising, without the interactive flow and without reading or writing the
\* token file, and the requests that follow carry no bearer token.
DisabledWithoutClientId ==
    client_id \in { NoneStr, "" } =>
        /\ b_pc \in {"start", "disabled"}
        /\ ~interactive
        /\ loaded = NoCredential
        /\ token_file \in { NoCredential, Complete([access_token |-> 1, refresh_token |-> TRUE]) }
        /\ issued = (IF token_file = NoCredential THEN 0 ELSE 1)
        /\ \A r \in sent : ~r.bearer

\* an unauthenticated request sent while a stored credential lies untouched on disk
DisabledWitness ==
    /\ client_id = ""
    /\ b_pc = "disabled"
    /\ sent # { }
    /\ token_file.state = "complete"

\* ================================================================ claims: catalog entries and paging

\* the pipe-separated entries of an access-URL field
Entries(url_field) ==
    IF url_field.list THEN Split(Join(url_field.items), << >>) ELSE Split(url_field.s, << >>)

\* the catalog entries the search has been served (server paging as asked)
Fetched == SubSeq(catalog, 1, Min(Len(catalog), Len(requests) * cfg.limit))

\* a one-element list replaced by the bare string it holds
Unlist(raw) == IF raw.list /\ Len(raw.items) = 1 THEN Str(raw.items[1]) ELSE raw

UnlistDoc(doc) == [doc EXCEPT !.grid_label = Unlist(@), !.member_id = Unlist(@)]

InLabels(labels, g) == \E i \in 1..Len(labels) : labels[i] = g

ErrorEndsSearch ==
    \A k \in 1..Len(sizes) :
        sizes[k] = NoneInt => (k = Len(requests) /\ s_pc = "error")

\* the second page's request raised after the first page was parsed
ErrorOnSecondPageWitness ==
    /\ s_pc = "error"
    /\ Len(requests) = 2
    /\ sizes[1] # NoneInt /\ sizes[2] = NoneInt
    /\ records # << >>

\* C24: a finished search returns what it would return had every one-element
\* list in grid_label and member_id been the bare string: same records, same
\* entries kept and dropped.
ListEqualsBareString ==
    (s_pc = "done" /\ honest) =>
        records = _parse_docs([i \in 1..Len(Fetched) |-> UnlistDoc(Fetched[i])],
                              cfg.preferred_grid_labels)

\* under a grid-label filter: one entry with a list-valued label kept, one dropped
ListLabelWitness ==
    /\ s_pc = "done" /\ honest
    /\ cfg.preferred_grid_labels # << >>
    /\ \E i \in 1..Len(records) :
         /\ catalog[records[i].dataset_id].grid_label.list
         /\ catalog[records[i].dataset_id].member_id.list
    /\ \E i \in 1..Len(Fetched) :
         /\ Fetched[i].grid_label.list
         /\ Len(Entries(Fetched[i].url)) >= 3
         /\ \A j \in 1..Len(records) : records[j].dataset_id # i

\* C25: with a non-empty allow-list every record's grid label is in the list;
\* of the entries served, exactly those with a usable access triple and, when
\* the allow-list is non-empty, a listed grid label become records.
GridLabelFilter ==
    /\ cfg.preferred_grid_labels # << >> =>
           \A i \in 1..Len(records) : InLabels(cfg.preferred_grid_labels, records[i].grid_label)
    /\ (s_pc = "done" /\ honest) =>
           \A i \in 1..Len(Fetched) :
               (\E j \in 1..Len(records) : records[j].dataset_id = i)
                   <=> /\ Len(Entries(Fetched[i].url)) >= 3
                       /\ \/ cfg.preferred_grid_labels = << >>
                          \/ InLabels(cfg.preferred_grid_labels, Scalar(Fetched[i].grid_label))

\* a filtered search that dropped an entry with no grid label and kept another
GridLabelWitness ==
    /\ s_pc = "done" /\ honest
    /\ cfg.preferred_grid_labels # << >>
    /\ records # << >>
    /\ \E i \in 1..Len(Fetched) :
         /\ Fetched[i].grid_label.none
         /\ Len(Entries(Fetched[i].url)) >= 3
         /\ \A j \in 1..Len(records) : records[j].dataset_id # i

\* C29: the k-th catalog request (k = 0, 1, ...) carries offset k * limit, and a
\* request is issued only when every earlier response held at least limit
\* entries: a short or empty page is the last page of its search.
PagingOffsetsAndStop ==
    /\ Len(sizes) = Len(requests)
    /\ \A k \in 1..Len(requests) : requests[k] = (k - 1) * cfg.limit
    /\ \A k \in 1..Len(sizes) :
           (k < Len(sizes) \/ s_pc = "paging") => sizes[k] >= cfg.limit

\* a search that stopped on a short second page with a page of its budget unused
ShortPageStopsWitness ==
    /\ s_pc = "done"
    /\ Len(requests) = 2
    /\ cfg.max_pages > 2
    /\ requests[2] = cfg.limit
    /\ sizes[1] = cfg.limit
    /\ sizes[2] > 0 /\ sizes[2] < cfg.limit

\* ================================================================ claims: assembly preconditions

\* C26: when a member is pinned and the search returned records none of which
\* carries that member id, the assembly ends with 'member not found' and no
\* file has been opened.
PinnedMemberNotFound ==
    (/\ a_pc # "idle"
     /\ ~pinned.none
     /\ a_records # << >>
     /\ \A i \in 1..Len(a_records) : a_records[i].member_id # pinned)
        => (a_pc = "error" /\ a_error = "member_not_found" /\ slices = << >>)

\* several records, all of other members or of none
PinnedMemberNotFoundWitness ==
    /\ a_pc = "error"
    /\ a_error = "member_not_found"
    /\ ~pinned.none
    /\ Len(a_records) >= 2
    /\ \E i \in 1..Len(a_records) : HasMember(a_records[i])

\* C27: when the search returned no records the assembly ends with 'no entries
\* found' and no file has been opened, whether or not a member is pinned.
NoEntriesIsFatal ==
    (a_pc # "idle" /\ a_records = << >>)
        => (a_pc = "error" /\ a_error = "no_entries" /\ slices = << >>)

\* an empty search result with a pinned member: reported as 'no entries'
NoEntriesWitness ==
    /\ a_pc = "error"
    /\ a_error = "no_entries"
    /\ a_records = << >>
    /\ ~pinned.none
    /\ slices = << >>

\* ================================================================ claims: bulk retrieval

\* C28: after planning, every destination of a record found is the destination
\* of exactly one task, every task is handed to a worker at most once, and no
\* two tasks running at the same time have the same destination.
OneTaskPerDestination ==
    bulk_pc \in { "pool", "done" } =>
        /\ \A k \in 1..Len(found) :
             Cardinality({ i \in 1..Len(tasks) :
                             tasks[i].dest = Dest(found[k].model, found[k].exp, ensure_https(found[k].url)) }) = 1
        /\ \A i \in 1..Len(tasks) :
             \E k \in 1..Len(found) :
                 tasks[i].dest = Dest(found[k].model, found[k].exp, ensure_https(found[k].url))
        /\ running \subseteq 1..started
        /\ \A i, j \in running : i # j => tasks[i].dest # tasks[j].dest

\* two workers busy, after two records with the same destination were merged
OneTaskPerDestinationWitness ==
    /\ bulk_pc = "pool"
    /\ Cardinality(running) = 2
    /\ Len(tasks) < Len(found)
    /\ \E k, l \in 1..Len(found) :
         /\ found[k].url.host # found[l].url.host
         /\ found[k].model = found[l].model
         /\ found[k].url.name = found[l].url.name

\* ================================================================ claims: content request

\* C30: the content request asks for the bytes from the local file's size on
\* (for everything when there are no local bytes): a ranged answer holds the
\* source from exactly that position. Its bytes are appended to the local
\* bytes when the answer is ranged, and written to an emptied file otherwise.
RangeStartsAtLocalSize ==
    (status # 0 /\ ~StatusRaises(status)) =>
        /\ gets = 1
        /\ resume_at = (IF startExists THEN Len(startFile) ELSE 0)
        /\ status = 206 =>
               /\ resume_at > 0
               /\ IsPrefix(written, SubSeq(Src, resume_at + 1, T))
        /\ file = (IF resume_at > 0 /\ status = 206 THEN startFile \o written ELSE written)

\* in the middle of a resumed transfer: some bytes appended, more to come
RangeAppendWitness ==
    /\ f_pc = "stream"
    /\ status = 206
    /\ startExists /\ startFile # << >>
    /\ written # << >>
    /\ bodyLeft # << >>
    /\ file = startFile \o written

\* C31: when the content request carried a range and the server answers 200
\* with the whole body, the local file is emptied and holds only bytes of that
\* body, from its first byte on; once the body is through, the file is the
\* source, never the old partial bytes followed by a full copy.
FullAnswerReplacesFile ==
    (status = 200 /\ resume_at > 0) =>
        /\ file = written
        /\ IsPrefix(file, Src)
        /\ (f_pc = "done" /\ delivered) => (file = Src /\ file # startFile \o Src)

\* a partial local copy replaced by the full body of a 200 answer
FullAnswerWitness ==
    /\ f_pc = "done" /\ result = "ok" /\ delivered
    /\ status = 200
    /\ resume_at > 0 /\ resume_at < T
    /\ startFile # << >>
    /\ file = Src

\* C32: when the probe fails the expected length is unknown and the fetch goes
\* on: it never short-circuits and never reports an incomplete download, and
\* once a response was accepted and its stream ended without an error the fetch
\* succeeds, whatever the size of the file it leaves.
ProbeFailureNotFatal ==
    (expected = NoneInt /\ f_pc \in {"get", "stream", "done"}) =>
        /\ result \notin {"skip", "incomplete"}
        /\ (f_pc = "done" /\ result \notin {"aborted", "request_error", "status_error", "stream_error"})
               => (result = "ok" /\ gets = 1)

\* success after a failed probe with fewer bytes on disk than the source has
ProbeFailureWitness ==
    /\ f_pc = "done" /\ result = "ok"
    /\ expected = NoneInt
    /\ status = 200
    /\ ~delivered
    /\ Len(file) < T

\* ================================================================ claims: transfer order

SameKey(a, b) == ~KeyLess(a, b) /\ ~KeyLess(b, a)

\* member_records is the chosen member's records in key order, records with
\* equal keys in catalog order, and the files are opened in that order
TransferOrderIsStableSort ==
    LET F == FilterMember(a_records, member) IN
    /\ \E p \in Perms(Len(F)) :
         /\ member_records = [i \in 1..Len(F) |-> F[p[i]]]
         /\ \A i, j \in 1..Len(F) :
              i < j => /\ ~KeyLess(F[p[j]], F[p[i]])
                       /\ SameKey(F[p[i]], F[p[j]]) => p[i] < p[j]
    /\ \A i \in 1..Len(slices) :
         \A k \in 1..Len(slices[i]) : slices[i][k].url = member_records[i].url

\* every other catalog order of the same records gives the same transfer order
TransferOrderSameForAllCatalogOrders ==
    \A q \in Perms(Len(a_records)) :
        SortByKey(FilterMember([i \in 1..Len(a_records) |-> a_records[q[i]]], member), << >>)
            = member_records

\* C33 (as stated): the chosen member's files are transferred in the order of a
\* stable sort on (service rank, start timestamp), and that order does not
\* depend on the order in which the catalog listed them.
TransferOrderIndependentOfCatalog ==
    a_pc \in {"transfer", "done"} =>
        (TransferOrderIsStableSort /\ TransferOrderSameForAllCatalogOrders)

\* C33 (amended): the files are transferred in the order of a stable sort on
\* (service rank, start timestamp): files with equal keys stay in catalog
\* order, and the order is the same for every catalog order when no two
\* different files of the member have equal keys.
TransferOrderStableByKey ==
    a_pc \in {"transfer", "done"} =>
        /\ TransferOrderIsStableSort
        /\ (\A i, j \in 1..Len(member_records) :
                SameKey(member_records[i], member_records[j]) => member_records[i] = member_records[j])
               => TransferOrderSameForAllCatalogOrders

\* three files reordered by the sort, two of them with equal keys
TransferOrderWitness ==
    /\ a_pc = "done"
    /\ Len(member_records) = 3
    /\ member_records # FilterMember(a_records, member)
    /\ SameKey(member_records[2], member_records[3])
    /\ member_records[2].url # member_records[3].url
    /\ Len(slices) = 3

\* ================================================================ claims: member fallback

\* C34: with no member pinned and no record carrying a member id, the member is
\* the first record's (empty or missing) id, the first record is among the
\* files to open, and the assembly goes on to the transfers: it does not end
\* in 'member not found'.
FallbackToFirstRecord ==
    (a_pc # "idle" /\ pinned.none /\ a_records # << >> /\ MemberIds = { }) =>
        /\ member = a_records[1].member_id
        /\ a_error \notin {"member_not_found", "no_entries"}
        /\ \E i \in 1..Len(member_records) : member_records[i] = a_records[1]
        /\ \A i \in 1..Len(member_records) : member_records[i].member_id = a_records[1].member_id
        /\ a_pc = "done" => Len(slices) = Len(member_records)

\* first record with an empty id, another with a missing id: only the first is opened
FallbackWitness ==
    /\ a_pc = "done" /\ pinned.none
    /\ MemberIds = { }
    /\ Len(a_records) >= 2
    /\ a_records[1].member_id = Text(<< >>)
    /\ \E i \in 1..Len(a_records) : a_records[i].member_id = NoneVal
    /\ Len(member_records) < Len(a_records)

\* ================================================================ claims: cache path

\* C39 (as stated): a local file is short-circuited as complete, or appended
\* to, only by a fetch of the URL the file was cached for.
CacheFileServesOwnUrl ==
    /\ (f_pc = "done" /\ result = "skip") => cached_for = src
    /\ (f_pc \in {"stream", "done"} /\ status = 206) => cached_for = src

\* ================================================================ claims: failure inside an assembly

\* C35 (as stated): when opening a file fails the assembly ends in that error
\* with no series returned and the remaining files not opened, and the cache
\* files of the files opened earlier in the assembly are still complete.
FailureEndsAssemblyKeepingCache ==
    (a_pc = "error" /\ a_error = "open_failed") =>
        /\ combined = << >>
        /\ Len(slices) < Len(member_records)
        /\ Cardinality(completed) <= Len(slices)
        /\ \A p \in completed : a_cache[p] = "complete"

\* ================================================================ claims: unusable catalog entries

\* C37: an entry served with a missing url field, or with a url field holding no
\* complete (url, mime, service) triple, has no record, and parsing it raises
\* nothing: a search is in error only when its last request raised. Every
\* other entry served has exactly the record it yields when parsed alone.
UnusableEntriesSkipped ==
    honest =>
        /\ s_pc = "error" => (sizes # << >> /\ sizes[Len(sizes)] = NoneInt)
        /\ s_pc \in {"paging", "done"} =>
               \A i \in 1..Len(Fetched) :
                   LET own == SelectSeq(records, LAMBDA r : r.dataset_id = i) IN
                   IF Fetched[i].url.none \/ Len(Entries(Fetched[i].url)) < 3
                   THEN own = << >>
                   ELSE own = _parse_docs(<< Fetched[i] >>, cfg.preferred_grid_labels)

\* a finished search that was served an entry without url and an entry with an
\* incomplete triple, and holds the record of an entry served after one of them
UnusableEntriesWitness ==
    /\ s_pc = "done" /\ honest
    /\ \E i, j, k \in 1..Len(Fetched) :
         /\ Fetched[i].url.none
         /\ ~Fetched[j].url.none /\ Len(Entries(Fetched[j].url)) < 3
         /\ k > Min(i, j)
         /\ \E n \in 1..Len(records) : records[n].dataset_id = k

\* ================================================================ claims: point extraction

\* C36 (as stated): the extraction succeeds, with the nearest-point lookup
\* called with the names that were found, whenever the dataset has one of the
\* latitude aliases and one of the longitude aliases, and otherwise fails with
\* 'coordinate not found'.
ExtractionAcceptsAliases ==
    x_pc \in {"done", "error"} =>
        IF (\E i \in 1..Len(LatAliases) : LatAliases[i] \in x_coords)
           /\ (\E i \in 1..Len(LonAliases) : LonAliases[i] \in x_coords)
        THEN x_pc = "done" /\ x_used = << lat_name, lon_name >>
        ELSE x_pc = "error" /\ x_error = "coordinate_not_found"

\* ================================================================ claims: query parameters

\* the experiments that get no activity filter, spelled out
ExemptExperiments ==
    { << "ssp", "245" >>, << "SSP", "245" >>, << "historical" >>, << "Historical" >> }

\* C38: the parameters, and every page request, carry activity_id (with the
\* configured value) exactly when an activity id is configured and the
\* experiment is neither a scenario (ssp...) nor historical, in any letter case.
ActivityIdOnlyOutsideScenarioAndHistorical ==
    q_pc \in {"paging", "done"} =>
        LET wanted == q_activity \in { "CMIP", "DAMIP" } /\ q_experiment \notin ExemptExperiments
            Right(ps) == /\ ("activity_id" \in ps.keys) <=> wanted
                         /\ ps.activity_id = (IF wanted THEN q_activity ELSE NoneStr)
        IN  /\ Right(q_params)
            /\ \A k \in 1..Len(q_sent) : Right(q_sent[k]) /\ "offset" \in q_sent[k].keys

\* three page requests of an upper-case scenario experiment, activity id configured
ActivityIdWitness ==
    /\ q_pc = "done"
    /\ Len(q_sent) = 3
    /\ q_activity = "CMIP"
    /\ q_experiment = << "SSP", "245" >>
    /\ \A k \in 1..Len(q_sent) : "activity_id" \notin q_sent[k].keys

====
